---- MODULE Spec2Model ----
(***************************************************************************)
(* Verification model of the ozon-parser position tracker.                 *)
(*                                                                         *)
(*  - SearchSpec: OzonParser.find_product_position (app/services/parser.py)*)
(*    as a step machine over one browser page whose content and challenge  *)
(*    status are chosen by the site.                                       *)
(*  - PoolSpec: PositionTracker.run / _worker / _process_single_task /     *)
(*    _get_fresh_page (app/services/position_tracker.py) over the single   *)
(*    OzonParser context shared by all workers, with restart_browser.      *)
(*  - SheetSpec: the hourly columns of the worksheet, the cell writes of   *)
(*    the runs and the consolidation into daily columns.                   *)
(*  - ChallengeSpec: the captcha and block detectors of OzonParser,        *)
(*    _wait_for_captcha and _handle_block_page.                            *)
(*  - TasksSpec: PositionTracker.get_tasks_from_sheet over the rows of a   *)
(*    worksheet.                                                           *)
(*  - ProxySpec: OzonParser._get_next_proxy over the browser launches of   *)
(*    the one parser the workers share.                                    *)
(*  - RecaptchaSpec: the per-account solver state of RecaptchaSolverPool   *)
(*    (recaptcha_pool.py).                                                 *)
(***************************************************************************)
EXTENDS Integers, Sequences, FiniteSets, TLC

VARIABLES
    \* ---- find_product_position ----
    target_article,   \* the identifier searched for
    max_position,     \* the ceiling
    seen_products,    \* set of identifiers already returned by a collection
    position,         \* running 1-based counter
    page_num,         \* page / scroll counter
    use_pagination,   \* mode chosen by the probe scroll
    empty_pages,      \* streak of advances without new identifiers
    sPc,              \* place in find_product_position
    ret,              \* what find_product_position returned or raised
    links,            \* product identifiers linked on the page, document order
    pageStatus,       \* what the page shows: normal / captcha / blocked
    recounted,        \* identifiers returned as new while already seen
    trueRank,         \* rank of the target among distinct identifiers met
    unresolved,       \* _handle_block_page returned False in this run
    scrolls,          \* scroll calls of the scroll loop so far, modulo ScrollWrap
    grew,             \* the last scroll found the page taller (scrollHeight)
    dry,              \* an advance of the loop brought no new identifier
    \* ---- PositionTracker.run and its workers ----
    num_tasks,        \* len(tasks)
    num_workers,      \* min(settings.parallel_tabs, len(tasks))
    task_queue,       \* asyncio.Queue of task numbers, FIFO
    results,          \* the results list: <<task, result>> in append order
    writes,           \* update_cell calls issued: <<task, value>>
    runPc,            \* place in run()
    spawned,          \* workers created so far
    wPc,              \* place of each worker
    wTask,            \* task a worker is processing (0: none)
    attempt,          \* index of the attempt in _process_single_task
    wPosition,        \* the local `position` of _process_single_task
    wPage,            \* the tab a worker holds: none / open / closed / killed
    gfFrom,           \* which call of _get_fresh_page a worker is in
    context,          \* OzonParser._context: live / none
    openContexts,     \* browser contexts launched and not closed
    restart_lock,     \* holders of OzonParser._restart_lock
    flaky,            \* tasks whose searches may fail in this run
    faulty,           \* whether opening a tab or launching the browser may fail
    filled,           \* tasks whose cell in the run's column was filled at the start
    wAllRaised,       \* every attempt of the current task raised a retried error
    needRestart,      \* workers whose last attempt ended blocked / load error /
                      \* timeout, with no restart_browser by anyone since
    \* ---- the worksheet: hourly columns, runs and consolidation ----
    ceiling,          \* max_position of the runs that write to the sheet
    sheet,            \* the columns from D on, left to right: header and cells
    now,              \* datetime.now(): date and hour
    rPc,              \* place in run(): idle / writing
    pending,          \* rows whose task the run has still to write
    cPc,              \* place in consolidate_daily_results
    cDate,            \* its date_str
    cCols,            \* its hourly_columns, still to be deleted when deleting
    cAvg,             \* its averages
    cRet,             \* what it returned
    cClean,           \* the date had no daily column when it started
    cQueue,           \* dates_to_consolidate of consolidate_old_hourly_columns
    \* ---- challenge detection and resolution ----
    chPc,             \* place in _wait_for_captcha / _handle_block_page
    chPage,           \* what the page shows: normal / captcha / blocked
    solver,           \* whether OzonParser._captcha_solver is set
    polls,            \* classifications made by the running wait loop
    reloads,          \* refresh / reload actions of _handle_block_page
    lastSeen,         \* the last call of a detector: page, read outcome, result
    chRet,            \* what _handle_block_page returned
    chExc,            \* the call whose exception left the running function
    \* ---- get_tasks_from_sheet ----
    data,             \* worksheet.get_all_values(): rows of cell texts
    tPc,              \* place in get_tasks_from_sheet
    row_idx,          \* 1-based sheet index of the row the loop is at
    current_article,  \* article of the last product header row, "" for None
    tasks,            \* the SearchTask list built so far
    \* ---- proxy rotation ----
    proxy_server,     \* whether settings.proxy_server is set
    num_proxies,      \* len(self._proxies)
    current_proxy_idx,\* self._current_proxy_idx
    launches,         \* the launches so far: who launched, which proxy
    \* ---- RecaptchaSolverPool ----
    playwright_available, \* PLAYWRIGHT_AVAILABLE
    current_solver,       \* AccountSolverState.current_solver, per account
    consecutive_failures, \* AccountSolverState.consecutive_failures
    fallback_activated,   \* AccountSolverState.fallback_activated
    failed_requests       \* failed get_token calls in a row on the current solver

searchVars == <<target_article, max_position, seen_products, position, page_num,
                use_pagination, empty_pages, sPc, ret, links, pageStatus,
                recounted, trueRank, unresolved, scrolls, grew, dry>>

poolVars == <<num_tasks, num_workers, task_queue, results, writes, runPc, spawned,
              wPc, wTask, attempt, wPosition, wPage, gfFrom, context, openContexts, restart_lock,
              flaky, faulty, filled, wAllRaised, needRestart>>

sheetVars == <<ceiling, sheet, now, rPc, pending, cPc, cDate, cCols, cAvg,
               cRet, cClean, cQueue>>

challengeVars == <<chPc, chPage, solver, polls, reloads, lastSeen, chRet, chExc>>

tasksVars == <<data, tPc, row_idx, current_article, tasks>>

proxyVars == <<proxy_server, num_proxies, current_proxy_idx, launches>>

recaptchaVars == <<playwright_available, current_solver, consecutive_failures,
                   fallback_activated, failed_requests>>

auxVars == <<tasksVars, proxyVars, recaptchaVars>>

vars == <<searchVars, poolVars, sheetVars, challengeVars, auxVars>>

(***************************************************************************)
(* Bounds of the model                                                     *)
(***************************************************************************)
SmallIdMax == 3      \* identifiers 1..SmallIdMax appear on ordinary pages
MaxLinks == 2        \* product links on an ordinary page
BulkExtra == 0       \* length of the long first page beyond SeenListLimit
SmallCeiling == 2    \* the smallest ceiling passed as max_position
LargeCeiling == 80   \* a ceiling the listing never reaches
MaxTasks == 2        \* search tasks read from the sheet
MaxWorkers == 2      \* settings.parallel_tabs
MaxRows == 1         \* task rows of the worksheet
MaxCols == 3         \* result columns the worksheet grows to
MaxDates == 2        \* days the clock runs through
MaxHours == 3        \* hours of a day the clock runs through
SheetCeiling == 50   \* a ceiling other than the default passed to run()
ScrollWrap == 2      \* the count of scroll calls is kept modulo this
MaxSheetRows == 4    \* rows of the worksheet read by get_tasks_from_sheet
MaxProxies == 3      \* entries of settings.proxy_list
MaxLaunches == 5     \* browser launches of one parser
MaxAccounts == 2     \* accounts (cookies) known to the solver pool
MaxFailCount == 4    \* consecutive failures the model counts up to

(***************************************************************************)
(* Program constants                                                       *)
(***************************************************************************)
captcha_polls == 60
passive_polls == 5
max_retries == 3
products_per_page == 36
max_empty_pages == 2
SeenListLimit == 2000
DefaultCeiling == 1000
min_columns == 3

Ids == 1..SmallIdMax
Ceilings == {SmallCeiling, SmallCeiling + 1, SmallCeiling + 2, LargeCeiling}
Statuses == {"normal", "captcha", "blocked"}

SeqsUpTo(S, n) == UNION {[1..k -> S] : k \in 0..n}
PageContents == SeqsUpTo(Ids, MaxLinks)
\* a long result page: SeenListLimit (+BulkExtra) distinct identifiers, 1 not among them
BulkPage == [i \in 1..(SeenListLimit + BulkExtra) |-> i + 1]
FirstPages == PageContents \cup {BulkPage}
PageStates == Statuses \X PageContents

Range(s) == {s[i] : i \in DOMAIN s}

max_pages == (max_position \div products_per_page) + 2

NoRet == [kind |-> "running", pos |-> 0]

(***************************************************************************)
(* _collect_products_from_page: the JS walks the links in document order   *)
(* and keeps an id when it is not in the list passed in and not already    *)
(* kept; the list passed in is the seen set only while it has fewer than   *)
(* SeenListLimit members.                                                  *)
(***************************************************************************)
FirstOccurrences(s) ==
    IF Cardinality(Range(s)) = Len(s) THEN s
    ELSE LET first == {i \in DOMAIN s : \A j \in 1..(i - 1) : s[j] # s[i]}
             nth(k) == CHOOSE i \in first : Cardinality({j \in first : j <= i}) = k
         IN  [k \in 1..Cardinality(first) |-> s[nth(k)]]

seen_list(seen) == IF Cardinality(seen) < SeenListLimit THEN seen ELSE {}

CollectIds(lk, seen) ==
    LET passed == seen_list(seen)
    IN  FirstOccurrences(SelectSeq(lk, LAMBDA id : id \notin passed))

\* identifiers of the page that were never met before, in document order
TrueNew(lk, seen) == FirstOccurrences(SelectSeq(lk, LAMBDA id : id \notin seen))

IndexOf(x, s) == CHOOSE i \in DOMAIN s : s[i] = x

RankAfter(lk) ==
    LET tn == TrueNew(lk, seen_products)
    IN  IF trueRank = 0 /\ target_article \in Range(tn)
        THEN Cardinality(seen_products) + IndexOf(target_article, tn)
        ELSE trueRank

(***************************************************************************)
(* The counting loops.  `for product_id in new: position += 1; if          *)
(* product_id == target: return position` and, in the advance loop only,   *)
(* `if position >= max_position: return None`.  The result is where the    *)
(* loop stops and why.                                                     *)
(***************************************************************************)
CountProducts(new, pos, check_ceiling) ==
    LET stops == {i \in DOMAIN new :
                     \/ new[i] = target_article
                     \/ check_ceiling /\ pos + i >= max_position}
    IN  IF stops = {} THEN [why |-> "more", pos |-> pos + Len(new)]
        ELSE LET i == CHOOSE k \in stops : \A m \in stops : k <= m
             IN  IF new[i] = target_article
                 THEN [why |-> "found", pos |-> pos + i]
                 ELSE [why |-> "ceiling", pos |-> pos + i]

(***************************************************************************)
(* Challenge detection and resolution.  A detector reads the page and      *)
(* answers False when the read fails.  _wait_for_captcha returns with the  *)
(* page in whatever state the site left it; _handle_block_page answers     *)
(* False exactly when its last read still shows the block heading.         *)
(***************************************************************************)
\* variant that takes a failed read for a captcha
is_captcha_page_closed(st, read_ok) == IF read_ok THEN st = "captcha" ELSE TRUE

\* 649-655: the title holds a captcha keyword; False when page.title() raises
is_captcha_page_on(st, read_ok) == IF read_ok THEN st = "captcha" ELSE FALSE

\* 657-667: the h1 holds the block text; False when a page call raises
is_blocked_page_on(st, read_ok) == IF read_ok THEN st = "blocked" ELSE FALSE

\* 669-686: both in one evaluate; (False, False) when it raises
check_page_status_on(st, read_ok) ==
    IF read_ok THEN <<st = "captcha", st = "blocked">> ELSE <<FALSE, FALSE>>

is_captcha_page(st) == {is_captcha_page_on(st, ok) : ok \in BOOLEAN}
is_blocked_page(st) == {is_blocked_page_on(st, ok) : ok \in BOOLEAN}
check_page_status(st) == {check_page_status_on(st, ok) : ok \in BOOLEAN}

wait_for_captcha(q) == {<<st, q[2]>> : st \in Statuses}

handle_block_page(q) ==
    UNION {{[page |-> <<st, q[2]>>, ok |-> ~b] : b \in is_blocked_page(st)} : st \in Statuses}

Finish(kind, pos) == sPc' = "done" /\ ret' = [kind |-> kind, pos |-> pos]
SetPage(q) == pageStatus' = q[1] /\ links' = q[2]

Workers == 0..(MaxWorkers - 1)

\* the pool at rest, for the specifications that do not run it
PoolIdle ==
    /\ num_tasks = 0
    /\ num_workers = 0
    /\ task_queue = <<>>
    /\ results = <<>>
    /\ writes = <<>>
    /\ runPc = "idle"
    /\ spawned = 0
    /\ wPc = [w \in Workers |-> "unborn"]
    /\ wTask = [w \in Workers |-> 0]
    /\ attempt = [w \in Workers |-> 0]
    /\ wPosition = [w \in Workers |-> "None"]
    /\ wPage = [w \in Workers |-> "none"]
    /\ gfFrom = [w \in Workers |-> "start"]
    /\ context = "live"
    /\ openContexts = 1
    /\ restart_lock = {}
    /\ flaky = {}
    /\ faulty = FALSE
    /\ filled = {}
    /\ wAllRaised = [w \in Workers |-> FALSE]
    /\ needRestart = {}

(***************************************************************************)
(* The worksheet.  A cell holds "" (0), the dash (-1), a position n (n) or *)
(* the not-found text "N+" (-N).  A header is a date with an hour          *)
(* ("DD.MM H:00") or with Daily ("DD.MM").                                 *)
(***************************************************************************)
Rows == 1..MaxRows
Dates == 1..MaxDates
Hours == 0..(MaxHours - 1)
Daily == 0 - 1
Empty == 0
Dash == 0 - 1
NotFoundText(n) == 0 - n
NoCells == [r \in Rows |-> Empty]

\* the worksheet at rest, for the specifications that do not use it
SheetIdle ==
    /\ ceiling = DefaultCeiling
    /\ sheet = <<>>
    /\ now = [date |-> 1, hour |-> 0]
    /\ rPc = "idle"
    /\ pending = {}
    /\ cPc = "idle"
    /\ cDate = 0
    /\ cCols = {}
    /\ cAvg = NoCells
    /\ cRet = FALSE
    /\ cClean = TRUE
    /\ cQueue = <<>>

Seen(det, st, ok, res) == [det |-> det, read |-> ok, page |-> st, res |-> res]
NoSeen == Seen("none", "normal", TRUE, <<FALSE, FALSE>>)

\* no challenge handling under way, for the specifications that do not use it
ChallengeIdle ==
    /\ chPc = "off"
    /\ chPage = "normal"
    /\ solver = FALSE
    /\ polls = 0
    /\ reloads = 0
    /\ lastSeen = NoSeen
    /\ chRet = FALSE
    /\ chExc = "none"

\* no sheet is being parsed, for the specifications that do not use it
TasksIdle ==
    /\ data = <<>>
    /\ tPc = "off"
    /\ row_idx = 0
    /\ current_article = <<>>
    /\ tasks = <<>>

\* no proxy configured and no launch made
ProxyIdle ==
    /\ proxy_server = FALSE
    /\ num_proxies = 0
    /\ current_proxy_idx = 0
    /\ launches = <<>>

Accounts == 1..MaxAccounts

\* a solver pool that no account has used
RecaptchaIdle ==
    /\ playwright_available = FALSE
    /\ current_solver = [a \in Accounts |-> "selenium"]
    /\ consecutive_failures = [a \in Accounts |-> 0]
    /\ fallback_activated = [a \in Accounts |-> FALSE]
    /\ failed_requests = [a \in Accounts |-> 0]

AuxIdle == TasksIdle /\ ProxyIdle /\ RecaptchaIdle

searchLocals == <<seen_products, position, page_num, use_pagination, empty_pages>>
searchHist == <<recounted, trueRank, dry>>

(***************************************************************************)
(* find_product_position, parser.py 891-1093, called with a page.          *)
(***************************************************************************)
SearchInit ==
    /\ target_article \in Ids \cup {0}
    /\ max_position \in Ceilings
    /\ seen_products = {}
    /\ position = 0
    /\ page_num = 1
    /\ use_pagination = FALSE
    /\ empty_pages = 0
    /\ sPc = "goto"
    /\ ret = NoRet
    /\ links = <<>>
    /\ pageStatus = "normal"
    /\ recounted = {}
    /\ trueRank = 0
    /\ unresolved = FALSE
    /\ scrolls = 0
    /\ grew = FALSE
    /\ dry = FALSE
    /\ PoolIdle
    /\ SheetIdle
    /\ ChallengeIdle
    /\ AuxIdle

\* 919-931: page.goto; a timeout is forgiven when a product link shows up
\* within 30 s, every other failure becomes OzonPageLoadError
Goto ==
    /\ UNCHANGED <<auxVars, poolVars, sheetVars, challengeVars, scrolls, grew>>
    /\ sPc = "goto"
    /\ \/ /\ \E st \in Statuses, lk \in FirstPages : SetPage(<<st, lk>>)
          /\ sPc' = "wait_products"
          /\ UNCHANGED ret
       \/ /\ \E st \in Statuses, lk \in PageContents \ {<<>>} : SetPage(<<st, lk>>)
          /\ sPc' = "wait_products"
          /\ UNCHANGED ret
       \/ /\ Finish("loaderr", 0)
          /\ UNCHANGED <<links, pageStatus>>
    /\ UNCHANGED <<target_article, max_position, searchLocals, searchHist, unresolved>>

\* 941-947: wait_for_selector("a[href*='/product/']", 15 s)
WaitForProducts ==
    /\ UNCHANGED <<auxVars, poolVars, sheetVars, challengeVars, scrolls, grew>>
    /\ sPc = "wait_products"
    /\ \/ /\ links # <<>>
          /\ sPc' = "check_first"
          /\ UNCHANGED <<ret, links, pageStatus>>
       \/ /\ links = <<>>
          /\ \E st \in Statuses, lk \in PageContents \ {<<>>} : SetPage(<<st, lk>>)
          /\ sPc' = "check_first"
          /\ UNCHANGED ret
       \/ /\ links = <<>>
          /\ Finish("loaderr", 0)
          /\ UNCHANGED <<links, pageStatus>>
    /\ UNCHANGED <<target_article, max_position, searchLocals, searchHist, unresolved>>

\* 949-956: captcha check and wait, then block check and resolver
CheckFirstPage ==
    /\ UNCHANGED <<auxVars, poolVars, sheetVars, challengeVars, scrolls, grew>>
    /\ sPc = "check_first"
    /\ \E c \in is_captcha_page(pageStatus) :
       \E mid \in (IF c THEN wait_for_captcha(<<pageStatus, links>>)
                        ELSE {<<pageStatus, links>>}) :
       \E b \in is_blocked_page(mid[1]) :
          IF b
          THEN \E h \in handle_block_page(mid) :
                  /\ SetPage(h.page)
                  /\ IF h.ok
                     THEN sPc' = "collect_first" /\ UNCHANGED <<ret, unresolved>>
                     ELSE Finish("blocked", 0) /\ unresolved' = TRUE
          ELSE /\ SetPage(mid)
               /\ sPc' = "collect_first"
               /\ UNCHANGED <<ret, unresolved>>
    /\ UNCHANGED <<target_article, max_position, searchLocals, searchHist>>

\* 959-967: first batch, counted without a ceiling test.  The page is part of
\* the state up to here; every later step reads the page it has just loaded
\* or scrolled, so it is not kept.
CollectFirstPage ==
    /\ UNCHANGED <<auxVars, poolVars, sheetVars, challengeVars, scrolls, grew>>
    /\ sPc = "collect_first"
    /\ LET new_products == CollectIds(links, seen_products)
           c == CountProducts(new_products, position, FALSE)
       IN  /\ seen_products' = seen_products \cup Range(new_products)
           /\ recounted' = recounted \cup (Range(new_products) \cap seen_products)
           /\ trueRank' = RankAfter(links)
           /\ dry' = dry
           /\ position' = c.pos
           /\ IF c.why = "found"
              THEN Finish("found", c.pos)
              ELSE sPc' = "probe" /\ UNCHANGED ret
    /\ links' = <<>>
    /\ pageStatus' = "normal"
    /\ UNCHANGED <<target_article, max_position, page_num, use_pagination, empty_pages,
                   unresolved>>

\* 971-991: one scroll to the bottom, a second collection, mode decision
ProbeScroll ==
    /\ UNCHANGED <<auxVars, poolVars, sheetVars, challengeVars, scrolls, grew>>
    /\ sPc = "probe"
    /\ \E lk \in PageContents :
          LET scroll_products == CollectIds(lk, seen_products)
              c == CountProducts(scroll_products, position, FALSE)
          IN  /\ seen_products' = seen_products \cup Range(scroll_products)
              /\ recounted' = recounted \cup (Range(scroll_products) \cap seen_products)
              /\ trueRank' = RankAfter(lk)
              /\ dry' = dry
              /\ use_pagination' = (Len(scroll_products) = 0)
              /\ position' = c.pos
              /\ IF c.why = "found"
                 THEN Finish("found", c.pos)
                 ELSE sPc' = "loop" /\ UNCHANGED ret
    /\ UNCHANGED <<target_article, max_position, page_num, empty_pages, links,
                   pageStatus, unresolved>>

\* 997: while position < max_position and page_num < max_pages
LoopCondition == position < max_position /\ page_num < max_pages

\* 1063-1081: what the loop body does with a collected batch
LoopTail(lk) ==
    LET new_products == CollectIds(lk, seen_products)
        c == CountProducts(new_products, position, TRUE)
    IN  /\ seen_products' = seen_products \cup Range(new_products)
        /\ recounted' = recounted \cup (Range(new_products) \cap seen_products)
        /\ trueRank' = RankAfter(lk)
        /\ dry' = (dry \/ new_products = <<>>)
        /\ IF new_products = <<>>
           THEN /\ empty_pages' = empty_pages + 1
                /\ position' = position
                /\ IF empty_pages + 1 >= max_empty_pages
                   THEN Finish("notfound", 0)
                   ELSE UNCHANGED <<sPc, ret>>
           ELSE /\ empty_pages' = 0
                /\ position' = c.pos
                /\ CASE c.why = "found" -> Finish("found", c.pos)
                     [] c.why = "ceiling" -> Finish("notfound", 0)
                     [] OTHER -> UNCHANGED <<sPc, ret>>

\* variant that gives up at the first page without a product link
NoProductsOnPage_first ==
    /\ empty_pages' = empty_pages + 1
    /\ Finish("notfound", 0)
    /\ dry' = TRUE
    /\ UNCHANGED <<seen_products, position, recounted, trueRank>>

\* 1028-1037: wait_for_selector on a later page finds no product link
NoProductsOnPage ==
    /\ empty_pages' = empty_pages + 1
    /\ IF empty_pages + 1 >= max_empty_pages
       THEN Finish("notfound", 0)
       ELSE UNCHANGED <<sPc, ret>>
    /\ dry' = TRUE
    /\ UNCHANGED <<seen_products, position, recounted, trueRank>>

\* 998-1039 and 1063-1081: one pagination advance.  q is the page the
\* navigation ends on (page.goto returned, or raised a "Timeout" that is
\* logged and ignored).
PaginationStep ==
    /\ UNCHANGED <<auxVars, poolVars, sheetVars, challengeVars, scrolls, grew>>
    /\ sPc = "loop" /\ LoopCondition /\ use_pagination
    /\ page_num' = page_num + 1
    /\ \E q \in PageStates :
       \E s \in check_page_status(q[1]) :
       \E mid \in (IF s[1] THEN wait_for_captcha(q) ELSE {q}) :
          IF s[2]
          THEN \E h \in handle_block_page(mid) :
                  IF h.ok
                  THEN /\ UNCHANGED unresolved
                       /\ IF h.page[2] = <<>> THEN NoProductsOnPage ELSE LoopTail(h.page[2])
                  ELSE /\ unresolved' = TRUE
                       /\ Finish("incomplete", 0 - 1)
                       /\ UNCHANGED <<seen_products, position, empty_pages, searchHist>>
          ELSE /\ UNCHANGED unresolved
               /\ IF mid[2] = <<>> THEN NoProductsOnPage ELSE LoopTail(mid[2])
    /\ UNCHANGED <<target_article, max_position, use_pagination, links, pageStatus>>

\* 1007-1013: page.goto of a later page raises something that is no "Timeout"
PaginationGotoRaises ==
    /\ UNCHANGED <<auxVars, poolVars, sheetVars, challengeVars, scrolls, grew>>
    /\ sPc = "loop" /\ LoopCondition /\ use_pagination
    /\ page_num' = page_num + 1
    /\ \E k \in {"closed", "timeout", "error"} : Finish(k, 0)
    /\ UNCHANGED <<target_article, max_position, seen_products, position, use_pagination,
                   empty_pages, links, pageStatus, searchHist, unresolved>>

\* 1041-1061 and 1063-1081: one scroll advance; q is the page after the scroll
ScrollStep ==
    /\ UNCHANGED <<auxVars, poolVars, sheetVars, challengeVars>>
    /\ sPc = "loop" /\ LoopCondition /\ ~use_pagination
    \* 1042-1048: page.evaluate scrolls to the bottom
    /\ scrolls' = (scrolls + 1) % ScrollWrap
    /\ \E q \in PageStates :
       \E s \in check_page_status(q[1]) :
          CASE s[1] ->
                 \* 1052-1054: wait for the captcha, then `continue`
                 UNCHANGED <<searchLocals, searchHist, sPc, ret, unresolved, grew>>
            [] s[2] ->
                 \* 1055-1058: resolver, then `continue` or return -1
                 \E h \in handle_block_page(q) :
                    /\ IF h.ok
                       THEN UNCHANGED <<sPc, ret, unresolved>>
                       ELSE Finish("incomplete", 0 - 1) /\ unresolved' = TRUE
                    /\ UNCHANGED <<searchLocals, searchHist, grew>>
            [] OTHER ->
                 \* the scroll read document.body.scrollHeight: the listing
                 \* was taller than at the scroll before, or it was not
                 /\ grew' \in BOOLEAN
                 /\ LoopTail(q[2])
                 /\ page_num' = page_num + 1
                 /\ UNCHANGED <<use_pagination, unresolved>>
    /\ UNCHANGED <<target_article, max_position, links, pageStatus>>

\* 1086-1089: the loop condition fails
LoopExit ==
    /\ UNCHANGED <<auxVars, poolVars, sheetVars, challengeVars, scrolls, grew>>
    /\ sPc = "loop" /\ ~LoopCondition
    /\ Finish("notfound", 0)
    /\ UNCHANGED <<target_article, max_position, searchLocals, links, pageStatus,
                   searchHist, unresolved>>

\* any awaited page call outside the guarded ones raises (tab closed, driver
\* timeout, anything else); the exception leaves find_product_position as is
PageCallRaises ==
    /\ UNCHANGED <<auxVars, poolVars, sheetVars, challengeVars, scrolls, grew>>
    /\ sPc \in {"wait_products", "check_first", "collect_first", "probe", "loop"}
    /\ sPc = "loop" => LoopCondition
    /\ \E k \in {"closed", "timeout", "error"} : Finish(k, 0)
    /\ UNCHANGED <<target_article, max_position, searchLocals, links, pageStatus,
                   searchHist, unresolved>>

SearchNext ==
    \/ PageCallRaises
    \/ Goto
    \/ WaitForProducts
    \/ CheckFirstPage
    \/ CollectFirstPage
    \/ ProbeScroll
    \/ PaginationStep
    \/ PaginationGotoRaises
    \/ ScrollStep
    \/ LoopExit

SearchSpec == SearchInit /\ [][SearchNext]_vars

\* the coroutine is always resumed: every awaited browser call returns or
\* raises, and the event loop runs the next step
SearchFairSpec == SearchSpec /\ WF_vars(SearchNext)

(***************************************************************************)
(* PositionTracker.run, position_tracker.py 499-536, with _worker          *)
(* (450-497), _process_single_task (362-448), _get_fresh_page (349-360)    *)
(* and OzonParser.restart_browser (parser.py 245-275).  main.py gives      *)
(* every tracker, and so every worker, the same OzonParser: one context.   *)
(***************************************************************************)
Tasks == 1..num_tasks

\* 439-445: the text recorded for the final value of `position`
ResultOf(pos) ==
    CASE pos = "found" -> "position"
      [] pos = "None" -> "ceiling+"
      [] OTHER -> "dash"

\* what one call of find_product_position can end in on the tab it is given:
\* on an open tab anything (a task outside `flaky` is found or not found); on
\* a closed one the navigation fails (wrapped in OzonPageLoadError) or a
\* later page call raises "... has been closed"
Outcomes(t, pg) ==
    IF pg # "open" THEN {"loaderr", "closed"}
    ELSE IF t \in flaky
         THEN {"found", "none", "incomplete", "blocked", "loaderr", "closed",
               "timeout", "error"}
         ELSE {"found", "none"}

RetriedErrors == {"blocked", "loaderr", "closed", "timeout"}

PoolInit ==
    /\ num_tasks \in 1..MaxTasks
    /\ \E parallel_tabs \in 1..MaxWorkers :
          num_workers = IF parallel_tabs < num_tasks THEN parallel_tabs ELSE num_tasks
    /\ task_queue = [i \in 1..num_tasks |-> i]
    /\ results = <<>>
    /\ writes = <<>>
    /\ runPc = "spawn"
    /\ spawned = 0
    /\ wPc = [w \in Workers |-> "unborn"]
    /\ wTask = [w \in Workers |-> 0]
    /\ attempt = [w \in Workers |-> 0]
    /\ wPosition = [w \in Workers |-> "None"]
    /\ wPage = [w \in Workers |-> "none"]
    /\ gfFrom = [w \in Workers |-> "start"]
    /\ context = "live"
    /\ openContexts = 1
    /\ restart_lock = {}
    /\ flaky \in SUBSET (1..num_tasks)
    /\ faulty \in BOOLEAN
    \* 508: column D is the column of this hour, with cells filled or not
    /\ filled \in SUBSET (1..num_tasks)
    /\ wAllRaised = [w \in Workers |-> FALSE]
    /\ needRestart = {}

poolParams == <<num_tasks, num_workers, flaky, faulty, filled>>

\* 523-531: create the next worker task; after the last one run() awaits gather
Spawn ==
    /\ UNCHANGED <<auxVars, searchVars, sheetVars, challengeVars>>
    /\ runPc = "spawn"
    /\ spawned < num_workers
    /\ wPc' = [wPc EXCEPT ![spawned] = "gf_new"]
    /\ gfFrom' = [gfFrom EXCEPT ![spawned] = "start"]
    /\ spawned' = spawned + 1
    /\ runPc' = IF spawned + 1 = num_workers THEN "gather" ELSE "spawn"
    /\ UNCHANGED <<poolParams, task_queue, results, writes, wTask, attempt,
                   wPosition, wPage, context, openContexts, restart_lock, wAllRaised, needRestart>>

\* 490-493: results.append((task, result)) and the cell write is started
Record(w, result) ==
    /\ results' = Append(results, <<wTask[w], result>>)
    /\ writes' = Append(writes, <<wTask[w], result>>)
    /\ wPc' = [wPc EXCEPT ![w] = "write"]

\* 439-448: _process_single_task returns, the worker records the result
Finalize(w, pos) == Record(w, ResultOf(pos))

\* _get_fresh_page returned a tab
FreshPageReturned(w) ==
    CASE gfFrom[w] = "start" ->
           \* 461: the worker enters its loop
           /\ wPc' = [wPc EXCEPT ![w] = "loop"]
           /\ UNCHANGED <<results, writes, attempt>>
      [] gfFrom[w] = "retry" ->
           \* 389-390 and alike: the new tab is bound, asyncio.sleep starts
           /\ wPc' = [wPc EXCEPT ![w] = "backoff"]
           /\ UNCHANGED <<results, writes, attempt>>
      [] OTHER ->
           \* 484, 490: recovered after a fatal error, the result is the dash
           /\ Record(w, "dash")
           /\ UNCHANGED attempt

\* _get_fresh_page raised
FreshPageRaised(w) ==
    CASE gfFrom[w] = "start" ->
           \* 461 is outside the try: the exception ends the worker task
           /\ wPc' = [wPc EXCEPT ![w] = "crashed"]
           /\ UNCHANGED <<gfFrom, wPage>>
      [] gfFrom[w] = "retry" ->
           \* 479-484: "Fatal error", result = dash, try to get a fresh page
           /\ wPc' = [wPc EXCEPT ![w] = "gf_new"]
           /\ gfFrom' = [gfFrom EXCEPT ![w] = "fatal"]
           /\ UNCHANGED wPage
      [] OTHER ->
           \* 485-488 and 496-497: task_done, break, finally close the tab
           /\ wPc' = [wPc EXCEPT ![w] = "done"]
           /\ wPage' = [wPage EXCEPT ![w] = IF @ = "none" THEN "none" ELSE "closed"]
           /\ UNCHANGED gfFrom

\* variant whose retry loop allows a fourth attempt
Backoff_four(w) ==
    /\ UNCHANGED <<auxVars, searchVars, sheetVars, challengeVars>>
    /\ wPc[w] = "backoff"
    /\ attempt' = [attempt EXCEPT ![w] = attempt[w] + 1]
    /\ IF attempt[w] + 1 < 4
       THEN /\ wPc' = [wPc EXCEPT ![w] = "search"]
            /\ UNCHANGED <<results, writes>>
       ELSE Finalize(w, wPosition[w])
    /\ UNCHANGED <<poolParams, task_queue, runPc, spawned, wTask, wPosition, wPage,
                   gfFrom, context, openContexts, restart_lock, wAllRaised, needRestart>>

\* 390-391 and alike: the sleep ends, then `continue` of
\* `for attempt in range(3)`; after the third attempt the loop is over and
\* 439-448 return the result
Backoff(w) ==
    /\ UNCHANGED <<auxVars, searchVars, sheetVars, challengeVars>>
    /\ wPc[w] = "backoff"
    /\ attempt' = [attempt EXCEPT ![w] = attempt[w] + 1]
    /\ IF attempt[w] + 1 < 3
       THEN /\ wPc' = [wPc EXCEPT ![w] = "search"]
            /\ UNCHANGED <<results, writes>>
       ELSE Finalize(w, wPosition[w])
    /\ UNCHANGED <<poolParams, task_queue, runPc, spawned, wTask, wPosition, wPage,
                   gfFrom, context, openContexts, restart_lock, wAllRaised, needRestart>>

\* variant in which the tab returned by _get_fresh_page is not bound to `page`
NewPage_unbound(w) ==
    /\ UNCHANGED <<auxVars, searchVars, sheetVars, challengeVars>>
    /\ wPc[w] = "gf_new"
    /\ \/ /\ context = "live"
          /\ wPage' = [wPage EXCEPT ![w] = IF gfFrom[w] = "start" THEN "open" ELSE @]
          /\ FreshPageReturned(w)
          /\ UNCHANGED gfFrom
       \/ /\ faulty \/ context # "live"
          /\ wPc' = [wPc EXCEPT ![w] = "gf_lock"]
          /\ UNCHANGED <<results, writes, attempt, wPage, gfFrom>>
    /\ UNCHANGED <<poolParams, task_queue, runPc, spawned, wTask, wPosition,
                   context, openContexts, restart_lock, wAllRaised, needRestart>>

\* 351-354: _new_page and _warmup on the current context
NewPage(w) ==
    /\ UNCHANGED <<auxVars, searchVars, sheetVars, challengeVars>>
    /\ wPc[w] = "gf_new"
    /\ \/ /\ context = "live"
          /\ wPage' = [wPage EXCEPT ![w] = "open"]
          /\ FreshPageReturned(w)
          /\ UNCHANGED gfFrom
       \/ \* 355-357: it raised, restart_browser is called
          /\ faulty \/ context # "live"
          /\ wPc' = [wPc EXCEPT ![w] = "gf_lock"]
          /\ UNCHANGED <<results, writes, attempt, wPage, gfFrom>>
    /\ UNCHANGED <<poolParams, task_queue, runPc, spawned, wTask, wPosition,
                   context, openContexts, restart_lock, wAllRaised, needRestart>>

\* variant of restart_browser that does not wait for the lock
RestartBrowserClose_nolock(w) ==
    /\ UNCHANGED <<auxVars, searchVars, sheetVars, challengeVars>>
    /\ wPc[w] = "gf_lock"
    /\ restart_lock' = restart_lock \cup {w}
    /\ context' = "none"
    /\ openContexts' = IF context = "live" THEN openContexts - 1 ELSE openContexts
    /\ wPage' = [v \in Workers |->
                    IF wPage[v] # "open" \/ context # "live" THEN wPage[v]
                    ELSE IF v = w THEN "closed" ELSE "killed"]
    /\ wPc' = [wPc EXCEPT ![w] = "gf_launch"]
    /\ needRestart' = {}
    /\ UNCHANGED <<poolParams, task_queue, results, writes, runPc, spawned,
                   wTask, attempt, wPosition, gfFrom, wAllRaised>>

\* parser.py 250-267: take the lock, close the context (every tab of it
\* dies; a close that raises is logged, the context counts as gone), wipe
\* browser_data
RestartBrowserClose(w) ==
    /\ UNCHANGED <<auxVars, searchVars, sheetVars, challengeVars>>
    /\ wPc[w] = "gf_lock"
    /\ restart_lock = {}
    /\ restart_lock' = restart_lock \cup {w}
    /\ context' = "none"
    /\ openContexts' = IF context = "live" THEN openContexts - 1 ELSE openContexts
    /\ wPage' = [v \in Workers |->
                    IF wPage[v] # "open" \/ context # "live" THEN wPage[v]
                    ELSE IF v = w THEN "closed" ELSE "killed"]
    /\ wPc' = [wPc EXCEPT ![w] = "gf_launch"]
    /\ needRestart' = {}
    /\ UNCHANGED <<poolParams, task_queue, results, writes, runPc, spawned,
                   wTask, attempt, wPosition, gfFrom, wAllRaised>>

\* parser.py 269-275: launch_persistent_context, then the lock is released
RestartBrowserLaunch(w) ==
    /\ UNCHANGED <<auxVars, searchVars, sheetVars, challengeVars>>
    /\ wPc[w] = "gf_launch"
    /\ restart_lock' = restart_lock \ {w}
    /\ \/ /\ context' = "live"
          /\ openContexts' = openContexts + 1
          /\ wPc' = [wPc EXCEPT ![w] = "gf_new2"]
          /\ UNCHANGED <<results, writes, attempt, wPage, gfFrom>>
       \/ /\ faulty
          /\ FreshPageRaised(w)
          /\ UNCHANGED <<context, openContexts, results, writes, attempt>>
    /\ UNCHANGED <<poolParams, task_queue, runPc, spawned, wTask, wPosition,
                   wAllRaised, needRestart>>

\* 358-360: _new_page and _warmup after the restart
NewPageAfterRestart(w) ==
    /\ UNCHANGED <<auxVars, searchVars, sheetVars, challengeVars>>
    /\ wPc[w] = "gf_new2"
    /\ \/ /\ context = "live"
          /\ wPage' = [wPage EXCEPT ![w] = "open"]
          /\ FreshPageReturned(w)
          /\ UNCHANGED gfFrom
       \/ /\ faulty \/ context # "live"
          /\ FreshPageRaised(w)
          /\ UNCHANGED <<results, writes, attempt>>
    /\ UNCHANGED <<poolParams, task_queue, runPc, spawned, wTask, wPosition,
                   context, openContexts, restart_lock, wAllRaised, needRestart>>

\* variant of the worker without the `finally` that closes its tab
Dequeue_leaves(w) ==
    /\ UNCHANGED <<auxVars, searchVars, sheetVars, challengeVars>>
    /\ wPc[w] = "loop"
    /\ IF task_queue = <<>>
       THEN /\ wPc' = [wPc EXCEPT ![w] = "done"]
            /\ wPage' = wPage
            /\ UNCHANGED <<task_queue, wTask, attempt, wPosition, wAllRaised>>
       ELSE /\ wTask' = [wTask EXCEPT ![w] = Head(task_queue)]
            /\ task_queue' = Tail(task_queue)
            /\ attempt' = [attempt EXCEPT ![w] = 0]
            /\ wPosition' = [wPosition EXCEPT ![w] = "None"]
            /\ wAllRaised' = [wAllRaised EXCEPT ![w] = TRUE]
            /\ wPc' = [wPc EXCEPT ![w] = "search"]
            /\ UNCHANGED wPage
    /\ UNCHANGED <<poolParams, results, writes, runPc, spawned, gfFrom,
                   context, openContexts, restart_lock, needRestart>>

\* 464-468 and 496-497: get_nowait, or QueueEmpty, break and close the tab
Dequeue(w) ==
    /\ UNCHANGED <<auxVars, searchVars, sheetVars, challengeVars>>
    /\ wPc[w] = "loop"
    /\ IF task_queue = <<>>
       THEN /\ wPc' = [wPc EXCEPT ![w] = "done"]
            /\ wPage' = [wPage EXCEPT ![w] = "closed"]
            /\ UNCHANGED <<task_queue, wTask, attempt, wPosition, wAllRaised>>
       ELSE /\ wTask' = [wTask EXCEPT ![w] = Head(task_queue)]
            /\ task_queue' = Tail(task_queue)
            /\ attempt' = [attempt EXCEPT ![w] = 0]
            /\ wPosition' = [wPosition EXCEPT ![w] = "None"]
            /\ wAllRaised' = [wAllRaised EXCEPT ![w] = TRUE]
            /\ wPc' = [wPc EXCEPT ![w] = "search"]
            /\ UNCHANGED wPage
    /\ UNCHANGED <<poolParams, results, writes, runPc, spawned, gfFrom,
                   context, openContexts, restart_lock, needRestart>>

\* variant in which a failed attempt ends the worker
Recover_quits(w, close_first) ==
    /\ wPc' = [wPc EXCEPT ![w] = "done"]
    /\ gfFrom' = gfFrom
    /\ wPage' = [wPage EXCEPT ![w] = "closed"]

\* 388-389 and alike: close the tab (or not) and call _get_fresh_page
Recover(w, close_first) ==
    /\ wPc' = [wPc EXCEPT ![w] = "gf_new"]
    /\ gfFrom' = [gfFrom EXCEPT ![w] = "retry"]
    /\ wPage' = [wPage EXCEPT ![w] = IF close_first /\ @ = "open" THEN "closed" ELSE @]

\* 375-437: one attempt of find_product_position and the branch taken on
\* what it returned or raised
Attempt(w) ==
    /\ UNCHANGED <<auxVars, searchVars, sheetVars, challengeVars>>
    /\ wPc[w] = "search"
    /\ \E o \in Outcomes(wTask[w], wPage[w]) :
          /\ wAllRaised' = [wAllRaised EXCEPT ![w] = @ /\ o \in RetriedErrors]
          /\ needRestart' = IF o \in {"blocked", "loaderr", "timeout"}
                            THEN needRestart \cup {w} ELSE needRestart \ {w}
          /\ CASE o = "found" ->
                    /\ wPosition' = [wPosition EXCEPT ![w] = "found"]
                    /\ Finalize(w, "found")
                    /\ UNCHANGED <<gfFrom, wPage>>
               [] o = "none" ->
                    /\ wPosition' = [wPosition EXCEPT ![w] = "None"]
                    /\ Finalize(w, "None")
                    /\ UNCHANGED <<gfFrom, wPage>>
               [] o = "incomplete" ->
                    \* 423-436
                    /\ wPosition' = [wPosition EXCEPT ![w] = "-1"]
                    /\ IF attempt[w] < 2
                       THEN Recover(w, TRUE) /\ UNCHANGED <<results, writes>>
                       ELSE Finalize(w, "-1") /\ UNCHANGED <<gfFrom, wPage>>
               [] o \in {"blocked", "loaderr", "timeout"} ->
                    \* 383-400, 409-417
                    /\ Recover(w, TRUE)
                    /\ UNCHANGED <<wPosition, results, writes>>
               [] o = "closed" ->
                    \* 404-408: a fresh tab without closing the old one
                    /\ Recover(w, FALSE)
                    /\ UNCHANGED <<wPosition, results, writes>>
               [] OTHER ->
                    \* 418-421
                    /\ wPosition' = [wPosition EXCEPT ![w] = "-1"]
                    /\ Finalize(w, "-1")
                    /\ UNCHANGED <<gfFrom, wPage>>
    /\ UNCHANGED <<poolParams, task_queue, runPc, spawned, wTask, attempt,
                   context, openContexts, restart_lock>>

\* variant in which the worker searches the written task again
WriteDone_again(w) ==
    /\ UNCHANGED <<auxVars, searchVars, sheetVars, challengeVars>>
    /\ wPc[w] = "write"
    /\ IF attempt[w] < 2
       THEN /\ wPc' = [wPc EXCEPT ![w] = "search"]
            /\ attempt' = [attempt EXCEPT ![w] = attempt[w] + 1]
            /\ UNCHANGED wTask
       ELSE /\ wPc' = [wPc EXCEPT ![w] = "loop"]
            /\ wTask' = [wTask EXCEPT ![w] = 0]
            /\ attempt' = [attempt EXCEPT ![w] = 0]
    /\ wPosition' = [wPosition EXCEPT ![w] = "None"]
    /\ wAllRaised' = [wAllRaised EXCEPT ![w] = FALSE]
    /\ needRestart' = needRestart \ {w}
    /\ gfFrom' = [gfFrom EXCEPT ![w] = "start"]
    /\ UNCHANGED <<poolParams, task_queue, results, writes, runPc, spawned,
                   wPage, context, openContexts, restart_lock>>

\* 324-340 and 495: the awaited cell write ends (an error is logged), task_done
WriteDone(w) ==
    /\ UNCHANGED <<auxVars, searchVars, sheetVars, challengeVars>>
    /\ wPc[w] = "write"
    /\ wPc' = [wPc EXCEPT ![w] = "loop"]
    \* the locals of _process_single_task are gone
    /\ wTask' = [wTask EXCEPT ![w] = 0]
    /\ attempt' = [attempt EXCEPT ![w] = 0]
    /\ wPosition' = [wPosition EXCEPT ![w] = "None"]
    /\ wAllRaised' = [wAllRaised EXCEPT ![w] = FALSE]
    /\ needRestart' = needRestart \ {w}
    /\ gfFrom' = [gfFrom EXCEPT ![w] = "start"]
    /\ UNCHANGED <<poolParams, task_queue, results, writes, runPc, spawned,
                   wPage, context, openContexts, restart_lock>>

\* variant in which run() only waits for the queue to be empty
GatherReturns_early ==
    /\ UNCHANGED <<auxVars, searchVars, sheetVars, challengeVars>>
    /\ runPc = "gather"
    /\ task_queue = <<>>
    /\ runPc' = "returned"
    /\ UNCHANGED <<poolParams, task_queue, results, writes, spawned,
                   wPc, wTask, attempt, wPosition, wPage, gfFrom, context, openContexts, restart_lock,
                   wAllRaised, needRestart>>

\* 534: asyncio.gather returns when every worker has returned
GatherReturns ==
    /\ UNCHANGED <<auxVars, searchVars, sheetVars, challengeVars>>
    /\ runPc = "gather"
    /\ \A w \in 0..(num_workers - 1) : wPc[w] = "done"
    /\ runPc' = "returned"
    /\ UNCHANGED <<poolParams, task_queue, results, writes, spawned,
                   wPc, wTask, attempt, wPosition, wPage, gfFrom, context, openContexts, restart_lock,
                   wAllRaised, needRestart>>

\* 534: asyncio.gather raises as soon as one worker task has raised
GatherRaises ==
    /\ UNCHANGED <<auxVars, searchVars, sheetVars, challengeVars>>
    /\ runPc = "gather"
    /\ \E w \in 0..(num_workers - 1) : wPc[w] = "crashed"
    /\ runPc' = "raised"
    /\ UNCHANGED <<poolParams, task_queue, results, writes, spawned,
                   wPc, wTask, attempt, wPosition, wPage, gfFrom, context, openContexts, restart_lock,
                   wAllRaised, needRestart>>

SearchIdle ==
    /\ target_article = 0
    /\ max_position = LargeCeiling
    /\ seen_products = {}
    /\ position = 0
    /\ page_num = 1
    /\ use_pagination = FALSE
    /\ empty_pages = 0
    /\ sPc = "idle"
    /\ ret = NoRet
    /\ links = <<>>
    /\ pageStatus = "normal"
    /\ recounted = {}
    /\ trueRank = 0
    /\ unresolved = FALSE
    /\ scrolls = 0
    /\ grew = FALSE
    /\ dry = FALSE

PoolNext ==
    \/ Spawn
    \/ GatherReturns
    \/ GatherRaises
    \/ \E w \in Workers : NewPage(w)
    \/ \E w \in Workers : RestartBrowserClose(w)
    \/ \E w \in Workers : RestartBrowserLaunch(w)
    \/ \E w \in Workers : NewPageAfterRestart(w)
    \/ \E w \in Workers : Dequeue(w)
    \/ \E w \in Workers : Backoff(w)
    \/ \E w \in Workers : Attempt(w)
    \/ \E w \in Workers : WriteDone(w)

PoolInitAll == PoolInit /\ SearchIdle /\ SheetIdle /\ ChallengeIdle /\ AuxIdle

PoolSpec == PoolInitAll /\ [][PoolNext]_vars

(***************************************************************************)
(* The worksheet operations of PositionTracker, position_tracker.py        *)
(* 118-322 and the cell writes of a run.  Each gspread call is one step;   *)
(* the operations run one after the other.                                 *)
(***************************************************************************)
Column(d, h, vs) == [date |-> d, hour |-> h, vals |-> vs]

\* variant whose pattern also matches the bare date
hourly_columns_for_date_loose(headers, d) ==
    {i \in DOMAIN headers : headers[i].date = d}

\* 139-156: indices of the headers matching "<date> H:MM"
hourly_columns_for_date(headers, d) ==
    {i \in DOMAIN headers : headers[i].date = d /\ headers[i].hour # Daily}

daily_columns_for_date(headers, d) ==
    {i \in DOMAIN headers : headers[i].date = d /\ headers[i].hour = Daily}

MinOf(S) == CHOOSE x \in S : \A y \in S : x <= y
MaxOf(S) == CHOOSE x \in S : \A y \in S : x >= y

\* 200-211: the numbers a row contributes; a text ending in "+" counts as
\* 1000, a text that is no integer is skipped
ParsedValue(cell) ==
    IF cell < Dash THEN DefaultCeiling ELSE cell

\* variant that skips only the empty cells, so that the dash is counted
Counted_dash(sh, cols, r) == {i \in cols : sh[i].vals[r] # Empty}

Counted(sh, cols, r) == {i \in cols : sh[i].vals[r] # Empty /\ sh[i].vals[r] # Dash}

RECURSIVE SumOver(_, _, _)
SumOver(sh, cols, r) ==
    IF cols = {} THEN 0
    ELSE LET i == MinOf(cols)
         IN  ParsedValue(sh[i].vals[r]) + SumOver(sh, cols \ {i}, r)

\* Python round(): to the nearest integer, a tie to the even one
PyRound(total, n) ==
    LET q == total \div n
        r == total % n
    IN  IF 2 * r < n THEN q
        ELSE IF 2 * r > n THEN q + 1
        ELSE IF q % 2 = 0 THEN q ELSE q + 1

\* 213-222: the text written for a row
Average(sh, cols, r) ==
    LET cs == Counted(sh, cols, r)
        n == Cardinality(cs)
        total == SumOver(sh, cs, r)
    IN  IF n = 0 THEN Empty
        ELSE IF total >= DefaultCeiling * n THEN NotFoundText(DefaultCeiling)
        ELSE PyRound(total, n)

RemoveAt(sq, i) == [k \in 1..(Len(sq) - 1) |-> IF k < i THEN sq[k] ELSE sq[k + 1]]

\* what a run writes into a cell: a position, "<ceiling>+" or the dash
RunValues == {5, NotFoundText(ceiling), Dash}

SheetInit ==
    /\ ceiling \in {SheetCeiling, DefaultCeiling}
    /\ sheet = <<>>
    /\ now = [date |-> 1, hour |-> 0]
    /\ rPc = "idle"
    /\ pending = {}
    /\ cPc = "idle"
    /\ cDate = 0
    /\ cCols = {}
    /\ cAvg = NoCells
    /\ cRet = FALSE
    /\ cClean = TRUE
    /\ cQueue = <<>>

AtRest == rPc = "idle" /\ cPc = "idle" /\ cQueue = <<>>

consVars == <<cPc, cDate, cCols, cAvg, cRet, cClean, cQueue>>
runVars == <<rPc, pending>>

\* the clock moves on to the next hour, or to the first hour of the next day
Tick ==
    /\ UNCHANGED <<auxVars, searchVars, poolVars, challengeVars>>
    /\ AtRest
    /\ \/ /\ now.hour < MaxHours - 1
          /\ now' = [now EXCEPT !.hour = @ + 1]
       \/ /\ now.date < MaxDates
          /\ now' = [date |-> now.date + 1, hour |-> 0]
    /\ UNCHANGED <<ceiling, sheet, runVars, consVars>>

\* 118-137 and 505-519: the column of the current hour is column D or is
\* inserted there; every task of the sheet is queued
StartRun ==
    /\ UNCHANGED <<auxVars, searchVars, poolVars, challengeVars>>
    /\ AtRest
    /\ IF Len(sheet) >= 1 /\ sheet[1].date = now.date /\ sheet[1].hour = now.hour
       THEN UNCHANGED sheet
       ELSE /\ Len(sheet) < MaxCols
            /\ sheet' = <<Column(now.date, now.hour, NoCells)>> \o sheet
    /\ pending' = Rows
    /\ rPc' = "writing"
    /\ UNCHANGED <<ceiling, now, consVars>>

\* 493, 324-340: update_cell(task.row_index, col_idx, result) with col_idx = 4
RunWrite ==
    /\ UNCHANGED <<auxVars, searchVars, poolVars, challengeVars>>
    /\ rPc = "writing"
    /\ \E r \in pending, v \in RunValues :
          /\ sheet' = [sheet EXCEPT ![1].vals[r] = v]
          /\ pending' = pending \ {r}
    /\ UNCHANGED <<ceiling, now, rPc, consVars>>

\* the run ends: every task written, or the remaining ones never recorded
RunEnd ==
    /\ UNCHANGED <<auxVars, searchVars, poolVars, challengeVars>>
    /\ rPc = "writing"
    /\ rPc' = "idle"
    /\ pending' = {}
    /\ UNCHANGED <<ceiling, sheet, now, consVars>>

\* 173-189: consolidate_daily_results(worksheet, d) reads the headers; no
\* hourly column: return False; one: rename it; more: read all values and
\* compute the averages.  consolidate_yesterday (264-275) is the call with
\* d = yesterday; inside consolidate_old_hourly_columns d is the next date
\* of dates_to_consolidate.
ConsStart ==
    /\ UNCHANGED <<auxVars, searchVars, poolVars, challengeVars>>
    /\ rPc = "idle" /\ cPc = "idle"
    /\ \E d \in Dates :
          LET hourly_columns == hourly_columns_for_date(sheet, d)
          IN  /\ cQueue # <<>> => d = Head(cQueue)
              /\ cQueue' = IF cQueue = <<>> THEN <<>> ELSE Tail(cQueue)
              /\ cDate' = d
              /\ cClean' = (daily_columns_for_date(sheet, d) = {})
              /\ CASE Cardinality(hourly_columns) < 1 ->
                        /\ cPc' = "returned"
                        /\ cRet' = FALSE
                        /\ UNCHANGED <<sheet, cCols, cAvg>>
                   [] Cardinality(hourly_columns) = 1 ->
                        /\ \/ /\ sheet' = [sheet EXCEPT ![MinOf(hourly_columns)].hour = Daily]
                              /\ cPc' = "returned"
                              /\ cRet' = TRUE
                           \/ /\ cPc' = "raised"
                              /\ UNCHANGED <<sheet, cRet>>
                        /\ UNCHANGED <<cCols, cAvg>>
                   [] OTHER ->
                        /\ cAvg' = [r \in Rows |-> Average(sheet, hourly_columns, r)]
                        /\ cCols' = hourly_columns
                        /\ cPc' = "header"
                        /\ UNCHANGED <<sheet, cRet>>
    /\ UNCHANGED <<ceiling, now, runVars>>

\* 228: update_cell(1, insert_position, date_str) on the leftmost hourly column
ConsHeader ==
    /\ UNCHANGED <<auxVars, searchVars, poolVars, challengeVars>>
    /\ cPc = "header"
    /\ sheet' = [sheet EXCEPT ![MinOf(cCols)].hour = Daily]
    /\ cPc' = "values"
    /\ UNCHANGED <<ceiling, now, runVars, cDate, cCols, cAvg, cRet, cClean, cQueue>>

\* 231-242: batch_update of the averages into that column
ConsValues ==
    /\ UNCHANGED <<auxVars, searchVars, poolVars, challengeVars>>
    /\ cPc = "values"
    /\ sheet' = [sheet EXCEPT ![MinOf(cCols)].vals = cAvg]
    /\ cCols' = cCols \ {MinOf(cCols)}
    /\ cPc' = "delete"
    /\ UNCHANGED <<ceiling, now, runVars, cDate, cAvg, cRet, cClean, cQueue>>

\* 244-252: delete_columns of the other hourly columns, right to left
ConsDelete ==
    /\ UNCHANGED <<auxVars, searchVars, poolVars, challengeVars>>
    /\ cPc = "delete"
    /\ sheet' = RemoveAt(sheet, MaxOf(cCols))
    /\ cCols' = cCols \ {MaxOf(cCols)}
    /\ IF cCols \ {MaxOf(cCols)} = {}
       THEN cPc' = "returned" /\ cRet' = TRUE
       ELSE UNCHANGED <<cPc, cRet>>
    /\ UNCHANGED <<ceiling, now, runVars, cDate, cAvg, cClean, cQueue>>

\* a gspread call of the consolidation raises (quota, network): the
\* exception leaves consolidate_daily_results with the sheet as it is
ConsFail ==
    /\ UNCHANGED <<auxVars, searchVars, poolVars, challengeVars>>
    /\ cPc \in {"header", "values", "delete"}
    /\ cPc' = "raised"
    /\ UNCHANGED <<ceiling, sheet, now, runVars, cDate, cCols, cAvg, cRet, cClean, cQueue>>

\* the caller has the result; after an exception consolidate_old_hourly_columns
\* does not go on to its next date
ConsReturn ==
    /\ UNCHANGED <<auxVars, searchVars, poolVars, challengeVars>>
    /\ cPc \in {"returned", "raised"}
    /\ cPc' = "idle"
    /\ cDate' = 0
    /\ cCols' = {}
    /\ cAvg' = NoCells
    /\ cRet' = FALSE
    /\ cClean' = TRUE
    /\ cQueue' = IF cPc = "raised" THEN <<>> ELSE cQueue
    /\ UNCHANGED <<ceiling, sheet, now, runVars>>

\* 277-312: consolidate_old_hourly_columns picks the dates with at least
\* min_columns hourly columns, in the order of their first header
dates_to_consolidate(headers) ==
    LET ds == {d \in Dates : Cardinality(hourly_columns_for_date(headers, d)) >= min_columns}
        first(d) == MinOf(hourly_columns_for_date(headers, d))
        nth(k) == CHOOSE d \in ds : Cardinality({e \in ds : first(e) <= first(d)}) = k
    IN  [k \in 1..Cardinality(ds) |-> nth(k)]

ConsOldStart ==
    /\ UNCHANGED <<auxVars, searchVars, poolVars, challengeVars>>
    /\ AtRest
    /\ dates_to_consolidate(sheet) # <<>>
    /\ cQueue' = dates_to_consolidate(sheet)
    /\ UNCHANGED <<ceiling, sheet, now, runVars, cPc, cDate, cCols, cAvg, cRet, cClean>>

SheetNext ==
    \/ Tick
    \/ StartRun
    \/ RunWrite
    \/ RunEnd
    \/ ConsStart
    \/ ConsHeader
    \/ ConsValues
    \/ ConsDelete
    \/ ConsFail
    \/ ConsReturn
    \/ ConsOldStart

SheetInitAll == SheetInit /\ SearchIdle /\ PoolIdle /\ ChallengeIdle /\ AuxIdle

SheetSpec == SheetInitAll /\ [][SheetNext]_vars

(***************************************************************************)
(* Challenge handling of OzonParser, parser.py 649-836: the detectors,     *)
(* _wait_for_captcha with _solve_captcha_auto, and _handle_block_page, as  *)
(* the advance loop calls them.  The site decides what the page shows      *)
(* after every wait, reload and solver action; every read of the page may  *)
(* fail.                                                                   *)
(***************************************************************************)
ChallengeInit ==
    /\ chPc = "idle"
    /\ chPage = "normal"
    /\ solver \in BOOLEAN
    /\ polls = 0
    /\ reloads = 0
    /\ lastSeen = NoSeen
    /\ chRet = FALSE
    /\ chExc = "none"

\* 1017-1024: _check_page_status on the page just loaded, then the branch
CheckPageStatus ==
    /\ UNCHANGED <<auxVars, searchVars, poolVars, sheetVars>>
    /\ chPc = "idle"
    /\ \E st \in Statuses, ok \in BOOLEAN :
          LET s == check_page_status_on(st, ok)
          IN  /\ chPage' = st
              /\ lastSeen' = Seen("status", st, ok, s)
              /\ chPc' = IF s[1] THEN "wc_enter" ELSE IF s[2] THEN "hb_passive" ELSE "idle"
    /\ UNCHANGED <<solver, polls, reloads, chRet, chExc>>

\* 688-693: _wait_for_captcha tries the solver when one is configured
WaitForCaptchaEnter ==
    /\ UNCHANGED <<auxVars, searchVars, poolVars, sheetVars>>
    /\ chPc = "wc_enter"
    /\ chPc' = IF solver THEN "wc_solve" ELSE "wc_poll"
    /\ UNCHANGED <<chPage, solver, polls, reloads, lastSeen, chRet, chExc>>

\* how _solve_captcha_auto and the RuCaptcha client can end (captcha.py):
\* the token was applied and the page is no longer classified as captcha;
\* it was applied and the captcha stays; no known widget is on the page;
\* the service answers with an error or never gets ready (CaptchaSolverError,
\* captcha.py 78-80, 203-205); the httpx request or response.json() raises;
\* a page call raises
SolverOutcomes == {"solved", "still_captcha", "unknown_widget", "service_error",
                   "poll_timeout", "http_error", "page_error"}

\* 694-699 with 711-808
SolveCaptchaAuto ==
    /\ UNCHANGED <<auxVars, searchVars, poolVars, sheetVars>>
    /\ chPc = "wc_solve"
    /\ \E o \in SolverOutcomes :
          CASE o = "solved" ->
                 \E st \in Statuses, ok \in BOOLEAN :
                    /\ ~is_captcha_page_on(st, ok)
                    /\ chPage' = st
                    /\ lastSeen' = Seen("captcha", st, ok, <<FALSE, FALSE>>)
                    /\ chPc' = "wc_returned"
                    /\ UNCHANGED chExc
            [] o = "still_captcha" ->
                 /\ is_captcha_page_on("captcha", TRUE)
                 /\ chPage' = "captcha"
                 /\ lastSeen' = Seen("captcha", "captcha", TRUE, <<TRUE, FALSE>>)
                 /\ chPc' = "wc_poll"
                 /\ UNCHANGED chExc
            [] o \in {"unknown_widget", "service_error", "poll_timeout"} ->
                 /\ chPc' = "wc_poll"
                 /\ UNCHANGED <<chPage, lastSeen, chExc>>
            [] o = "http_error" ->
                 \* only CaptchaSolverError is caught at 698
                 /\ chPc' = "wc_raised"
                 /\ chExc' = "http"
                 /\ UNCHANGED <<chPage, lastSeen>>
            [] OTHER ->
                 /\ chPc' = "wc_raised"
                 /\ chExc' = "page"
                 /\ UNCHANGED <<chPage, lastSeen>>
    /\ UNCHANGED <<solver, polls, reloads, chRet>>

\* 704-707: one classification of the manual wait loop
CaptchaPoll ==
    /\ UNCHANGED <<auxVars, searchVars, poolVars, sheetVars>>
    /\ chPc = "wc_poll"
    /\ \E ok \in BOOLEAN :
          LET c == is_captcha_page_on(chPage, ok)
          IN  /\ lastSeen' = Seen("captcha", chPage, ok, <<c, FALSE>>)
              /\ chPc' = IF c THEN "wc_wait" ELSE "wc_returned"
    /\ polls' = polls + 1
    /\ UNCHANGED <<chPage, solver, reloads, chRet, chExc>>

\* variant of the wait loop with one more iteration
CaptchaWait_longer ==
    /\ UNCHANGED <<auxVars, searchVars, poolVars, sheetVars>>
    /\ chPc = "wc_wait"
    /\ \/ /\ chPage' \in Statuses
          /\ chPc' = IF polls < captcha_polls + 1 THEN "wc_poll" ELSE "wc_returned"
          /\ UNCHANGED chExc
       \/ /\ chPc' = "wc_raised"
          /\ chExc' = "wait"
          /\ UNCHANGED chPage
    /\ UNCHANGED <<solver, polls, reloads, lastSeen, chRet>>

\* 708-709: wait_for_timeout(1000), then the next iteration of
\* `for _ in range(60)` or, after the last one, the return
CaptchaWait ==
    /\ UNCHANGED <<auxVars, searchVars, poolVars, sheetVars>>
    /\ chPc = "wc_wait"
    /\ \/ /\ chPage' \in Statuses
          /\ chPc' = IF polls < captcha_polls THEN "wc_poll" ELSE "wc_returned"
          /\ UNCHANGED chExc
       \/ /\ chPc' = "wc_raised"
          /\ chExc' = "wait"
          /\ UNCHANGED chPage
    /\ UNCHANGED <<solver, polls, reloads, lastSeen, chRet>>

\* 818-822: wait_for_timeout(2000), then one classification of the passive loop
BlockPassive ==
    /\ UNCHANGED <<auxVars, searchVars, poolVars, sheetVars>>
    /\ chPc = "hb_passive"
    /\ \/ \E st \in Statuses, ok \in BOOLEAN :
             LET b == is_blocked_page_on(st, ok)
             IN  /\ chPage' = st
                 /\ polls' = polls + 1
                 /\ lastSeen' = Seen("blocked", st, ok, <<FALSE, b>>)
                 /\ IF b
                    THEN /\ chPc' = IF polls + 1 < passive_polls THEN "hb_passive" ELSE "hb_retry"
                         /\ UNCHANGED chRet
                    ELSE /\ chPc' = "hb_returned"
                         /\ chRet' = TRUE
                 /\ UNCHANGED chExc
       \/ /\ chPc' = "hb_raised"
          /\ chExc' = "wait"
          /\ UNCHANGED <<chPage, polls, lastSeen, chRet>>
    /\ UNCHANGED <<solver, reloads>>

\* 825-827: the classification at the head of `for attempt in range(max_retries)`
BlockRetryCheck ==
    /\ UNCHANGED <<auxVars, searchVars, poolVars, sheetVars>>
    /\ chPc = "hb_retry"
    /\ \E ok \in BOOLEAN :
          LET b == is_blocked_page_on(chPage, ok)
          IN  /\ lastSeen' = Seen("blocked", chPage, ok, <<FALSE, b>>)
              /\ IF b
                 THEN chPc' = "hb_refresh" /\ UNCHANGED chRet
                 ELSE chPc' = "hb_returned" /\ chRet' = TRUE
    /\ UNCHANGED <<chPage, solver, polls, reloads, chExc>>

\* variant with one more refresh
BlockRefresh_extra ==
    /\ UNCHANGED <<auxVars, searchVars, poolVars, sheetVars>>
    /\ chPc = "hb_refresh"
    /\ \/ /\ chPage' \in Statuses
          /\ reloads' = reloads + 1
          /\ chPc' = IF reloads + 1 < max_retries + 1 THEN "hb_retry" ELSE "hb_final"
          /\ UNCHANGED chExc
       \/ /\ chPc' = "hb_raised"
          /\ chExc' = "page"
          /\ UNCHANGED <<chPage, reloads>>
    /\ UNCHANGED <<solver, polls, lastSeen, chRet>>

\* 828-834: click the refresh button or reload, wait_for_timeout(5000)
BlockRefresh ==
    /\ UNCHANGED <<auxVars, searchVars, poolVars, sheetVars>>
    /\ chPc = "hb_refresh"
    /\ \/ /\ chPage' \in Statuses
          /\ reloads' = reloads + 1
          /\ chPc' = IF reloads + 1 < max_retries THEN "hb_retry" ELSE "hb_final"
          /\ UNCHANGED chExc
       \/ /\ chPc' = "hb_raised"
          /\ chExc' = "page"
          /\ UNCHANGED <<chPage, reloads>>
    /\ UNCHANGED <<solver, polls, lastSeen, chRet>>

\* 836: return not await self._is_blocked_page(page)
BlockFinal ==
    /\ UNCHANGED <<auxVars, searchVars, poolVars, sheetVars>>
    /\ chPc = "hb_final"
    /\ \E ok \in BOOLEAN :
          LET b == is_blocked_page_on(chPage, ok)
          IN  /\ lastSeen' = Seen("blocked", chPage, ok, <<FALSE, b>>)
              /\ chRet' = ~b
    /\ chPc' = "hb_returned"
    /\ UNCHANGED <<chPage, solver, polls, reloads, chExc>>

\* the caller goes on (or its own caller does, after the exception) and the
\* locals of the function that ended are gone
Resume ==
    /\ UNCHANGED <<auxVars, searchVars, poolVars, sheetVars>>
    /\ chPc \in {"wc_returned", "wc_raised", "hb_returned", "hb_raised"}
    /\ chPc' = "idle"
    /\ polls' = 0
    /\ reloads' = 0
    /\ lastSeen' = NoSeen
    /\ chRet' = FALSE
    /\ chExc' = "none"
    /\ UNCHANGED <<chPage, solver>>

ChallengeNext ==
    \/ CheckPageStatus
    \/ WaitForCaptchaEnter
    \/ SolveCaptchaAuto
    \/ CaptchaPoll
    \/ CaptchaWait
    \/ BlockPassive
    \/ BlockRetryCheck
    \/ BlockRefresh
    \/ BlockFinal
    \/ Resume

ChallengeInitAll == ChallengeInit /\ SearchIdle /\ PoolIdle /\ SheetIdle /\ AuxIdle

ChallengeSpec == ChallengeInitAll /\ [][ChallengeNext]_vars

(***************************************************************************)
(* PositionTracker.get_tasks_from_sheet, position_tracker.py 84-116.  A    *)
(* cell text is a sequence of characters, a row a sequence of cells, the   *)
(* sheet a sequence of rows.                                               *)
(***************************************************************************)
\* str.strip(): the text without its leading and trailing blanks
RECURSIVE Strip(_)
Strip(s) ==
    IF s = <<>> THEN s
    ELSE IF Head(s) = " " THEN Strip(Tail(s))
    ELSE IF s[Len(s)] = " " THEN Strip(SubSeq(s, 1, Len(s) - 1))
    ELSE s

\* texts of the first cell and of the query cell, and the rows made of them
ArticleCells == {<<>>, <<" ">>, <<"a">>, <<"b", " ">>}
QueryCells == {<<>>, <<" ">>, <<" ", "q">>}
SheetRows ==
    {<<a, <<"n">>, q>> : a \in ArticleCells, q \in QueryCells}
        \cup {<<>>, <<<<"a">>, <<"n">>>>}

TasksInit ==
    /\ data \in SeqsUpTo(SheetRows, MaxSheetRows)
    /\ tPc = "loop"
    \* 92: enumerate(data[1:], start=2)
    /\ row_idx = 2
    /\ current_article = <<>>
    /\ tasks = <<>>

SearchTask(i, article, query) == [row_index |-> i, article |-> article, query |-> query]

\* variant that keeps the article of the first product header row
ParseRow_keepfirst ==
    /\ UNCHANGED <<searchVars, poolVars, sheetVars, challengeVars, proxyVars, recaptchaVars>>
    /\ tPc = "loop" /\ row_idx <= Len(data)
    /\ LET row == data[row_idx]
       IN  IF Len(row) < 3
           THEN UNCHANGED <<current_article, tasks>>
           ELSE LET article_cell == Strip(row[1])
                    query_cell == Strip(row[3])
                IN  IF article_cell # <<>>
                    THEN /\ current_article' = IF current_article = <<>>
                                               THEN article_cell ELSE current_article
                         /\ UNCHANGED tasks
                    ELSE /\ tasks' = IF current_article # <<>> /\ query_cell # <<>>
                                     THEN Append(tasks, SearchTask(row_idx, current_article, query_cell))
                                     ELSE tasks
                         /\ UNCHANGED current_article
    /\ row_idx' = row_idx + 1
    /\ UNCHANGED <<data, tPc>>

\* 92-113: the body of the loop for one row
ParseRow ==
    /\ UNCHANGED <<searchVars, poolVars, sheetVars, challengeVars, proxyVars, recaptchaVars>>
    /\ tPc = "loop" /\ row_idx <= Len(data)
    /\ LET row == data[row_idx]
       IN  IF Len(row) < 3
           THEN UNCHANGED <<current_article, tasks>>
           ELSE LET article_cell == Strip(row[1])
                    query_cell == Strip(row[3])
                IN  IF article_cell # <<>>
                    THEN /\ current_article' = article_cell
                         /\ UNCHANGED tasks
                    ELSE /\ tasks' = IF current_article # <<>> /\ query_cell # <<>>
                                     THEN Append(tasks, SearchTask(row_idx, current_article, query_cell))
                                     ELSE tasks
                         /\ UNCHANGED current_article
    /\ row_idx' = row_idx + 1
    /\ UNCHANGED <<data, tPc>>

\* 115-116: the loop is over, the list is returned
ReturnTasks ==
    /\ UNCHANGED <<searchVars, poolVars, sheetVars, challengeVars, proxyVars, recaptchaVars>>
    /\ tPc = "loop" /\ row_idx > Len(data)
    /\ tPc' = "returned"
    /\ UNCHANGED <<data, row_idx, current_article, tasks>>

TasksNext == ParseRow \/ ReturnTasks

TasksInitAll ==
    TasksInit /\ SearchIdle /\ PoolIdle /\ SheetIdle /\ ChallengeIdle /\ ProxyIdle /\ RecaptchaIdle

TasksSpec == TasksInitAll /\ [][TasksNext]_vars

(***************************************************************************)
(* OzonParser._get_next_proxy, parser.py 64-92, called by                  *)
(* _build_launch_options for every launch_persistent_context: the launch   *)
(* of __aenter__ and the launches of restart_browser, which the workers    *)
(* call on the one parser they share.  A proxy of the list is named by     *)
(* its index.                                                              *)
(***************************************************************************)
\* the launch of __aenter__ is made by no worker
Main == 0 - 1

ProxyInit ==
    /\ proxy_server \in BOOLEAN
    /\ num_proxies \in 0..MaxProxies
    \* 47
    /\ current_proxy_idx = 0
    /\ launches = <<>>

\* 66-75: what the call returns
NextProxy ==
    IF proxy_server THEN "server"
    ELSE IF num_proxies = 0 THEN "none"
    ELSE current_proxy_idx

\* 64-92: the launch made by `by` takes the proxy and the index moves on
GetNextProxy(by) ==
    /\ launches' = Append(launches, [by |-> by, proxy |-> NextProxy])
    /\ current_proxy_idx' =
          IF proxy_server \/ num_proxies = 0 THEN current_proxy_idx
          ELSE (current_proxy_idx + 1) % num_proxies
    /\ UNCHANGED <<proxy_server, num_proxies>>

\* 232-236: __aenter__ launches the browser
StartBrowser ==
    /\ UNCHANGED <<searchVars, poolVars, sheetVars, challengeVars, tasksVars, recaptchaVars>>
    /\ launches = <<>>
    /\ GetNextProxy(Main)

\* 272-274: restart_browser, called by worker w through _get_fresh_page
RestartBrowser(w) ==
    /\ UNCHANGED <<searchVars, poolVars, sheetVars, challengeVars, tasksVars, recaptchaVars>>
    /\ launches # <<>>
    /\ Len(launches) < MaxLaunches
    /\ GetNextProxy(w)

ProxyNext == StartBrowser \/ \E w \in Workers : RestartBrowser(w)

ProxyInitAll ==
    ProxyInit /\ SearchIdle /\ PoolIdle /\ SheetIdle /\ ChallengeIdle /\ TasksIdle /\ RecaptchaIdle

ProxySpec == ProxyInitAll /\ [][ProxyNext]_vars

(***************************************************************************)
(* RecaptchaSolverPool, recaptcha_pool.py: the AccountSolverState of each  *)
(* account and the calls that change it.  A call of get_token is one step: *)
(* the state is changed under the lock of the pool.  The counters          *)
(* total_requests and total_failures are only reported and are left out.   *)
(***************************************************************************)
MAX_FAILURES_BEFORE_FALLBACK == 3

RecaptchaInit ==
    /\ playwright_available \in BOOLEAN
    \* 55-58: DEFAULT_SOLVER is Playwright on darwin and linux when it is
    \* installed, Selenium otherwise; 73: every account starts with it
    /\ \E d \in {"selenium", "playwright"} :
          /\ d = "playwright" => playwright_available
          /\ current_solver = [a \in Accounts |-> d]
    /\ consecutive_failures = [a \in Accounts |-> 0]
    /\ fallback_activated = [a \in Accounts |-> FALSE]
    /\ failed_requests = [a \in Accounts |-> 0]

OtherSolver(sv) == IF sv = "selenium" THEN "playwright" ELSE "selenium"

\* 80-84
record_success(a) ==
    /\ consecutive_failures' = [consecutive_failures EXCEPT ![a] = 0]
    /\ failed_requests' = [failed_requests EXCEPT ![a] = 0]
    /\ UNCHANGED <<current_solver, fallback_activated>>

\* 86-100: the value returned by record_failure
should_fallback(a) ==
    /\ consecutive_failures[a] + 1 >= MAX_FAILURES_BEFORE_FALLBACK
    /\ ~fallback_activated[a]

\* 386-449: _get_token_playwright: a token, a failure (the value of
\* record_failure is dropped), or no solver object (174-182, 397-399: None
\* is returned and nothing is recorded)
PlaywrightAttempt(a, outcome) ==
    CASE outcome = "token" -> record_success(a)
      [] outcome = "fail" ->
           /\ consecutive_failures' = [consecutive_failures EXCEPT ![a] = @ + 1]
           /\ failed_requests' = [failed_requests EXCEPT ![a] = @ + 1]
           /\ UNCHANGED <<current_solver, fallback_activated>>
      [] OTHER ->
           /\ failed_requests' = [failed_requests EXCEPT ![a] = @ + 1]
           /\ UNCHANGED <<current_solver, fallback_activated, consecutive_failures>>

\* 301-384: _get_token_selenium; on the failure that makes record_failure
\* answer True the account is switched (102-110) and Playwright is tried in
\* the same call
SeleniumAttempt(a, outcome, second) ==
    CASE outcome = "token" -> record_success(a)
      [] outcome = "fail" /\ should_fallback(a) /\ playwright_available ->
           /\ current_solver' = [current_solver EXCEPT ![a] = OtherSolver(@)]
           /\ fallback_activated' = [fallback_activated EXCEPT ![a] = TRUE]
           /\ CASE second = "token" ->
                     /\ consecutive_failures' = [consecutive_failures EXCEPT ![a] = 0]
                     /\ failed_requests' = [failed_requests EXCEPT ![a] = 0]
                [] second = "fail" ->
                     /\ consecutive_failures' = [consecutive_failures EXCEPT ![a] = 1]
                     /\ failed_requests' = [failed_requests EXCEPT ![a] = 1]
                [] OTHER ->
                     /\ consecutive_failures' = [consecutive_failures EXCEPT ![a] = 0]
                     /\ failed_requests' = [failed_requests EXCEPT ![a] = 1]
      [] OTHER ->
           /\ consecutive_failures' = [consecutive_failures EXCEPT ![a] = @ + 1]
           /\ failed_requests' = [failed_requests EXCEPT ![a] = @ + 1]
           /\ UNCHANGED <<current_solver, fallback_activated>>

SolverAnswers == {"token", "fail", "nosolver"}

\* 207-231: get_token picks the solver of the account
GetToken(a) ==
    /\ UNCHANGED <<searchVars, poolVars, sheetVars, challengeVars, tasksVars, proxyVars>>
    /\ \E outcome \in SolverAnswers :
          /\ outcome # "token" =>
                (consecutive_failures[a] < MaxFailCount /\ failed_requests[a] < MaxFailCount)
          /\ IF current_solver[a] = "playwright" /\ playwright_available
             THEN PlaywrightAttempt(a, outcome)
             ELSE /\ outcome # "nosolver"
                  /\ \E second \in SolverAnswers : SeleniumAttempt(a, outcome, second)
    /\ UNCHANGED playwright_available

\* 451-482: record_403_error counts a failure and may switch the account
Record403(a) ==
    /\ UNCHANGED <<searchVars, poolVars, sheetVars, challengeVars, tasksVars, proxyVars>>
    /\ consecutive_failures[a] < MaxFailCount
    /\ IF should_fallback(a) /\ playwright_available
       THEN /\ current_solver' = [current_solver EXCEPT ![a] = OtherSolver(@)]
            /\ fallback_activated' = [fallback_activated EXCEPT ![a] = TRUE]
            /\ consecutive_failures' = [consecutive_failures EXCEPT ![a] = 0]
            /\ failed_requests' = [failed_requests EXCEPT ![a] = 0]
       ELSE /\ consecutive_failures' = [consecutive_failures EXCEPT ![a] = @ + 1]
            /\ UNCHANGED <<current_solver, fallback_activated, failed_requests>>
    /\ UNCHANGED playwright_available

RecaptchaNext == \E a \in Accounts : GetToken(a) \/ Record403(a)

RecaptchaInitAll ==
    RecaptchaInit /\ SearchIdle /\ PoolIdle /\ SheetIdle /\ ChallengeIdle /\ TasksIdle /\ ProxyIdle

RecaptchaSpec == RecaptchaInitAll /\ [][RecaptchaNext]_vars

(***************************************************************************)
(* Properties of find_product_position (SearchSpec)                        *)
(***************************************************************************)
Returned(kind) == sPc = "done" /\ ret.kind = kind

\* C4: within one run no identifier already in the seen set is returned by
\* _collect_products_from_page as new, so position is incremented at most
\* once per distinct identifier, also when the seen set has 2000 or more
\* members.
C4_NoIdentifierCountedTwice == recounted = {}

\* C5: when the target is the k-th distinct identifier in encounter order,
\* the position returned is exactly k.
C5_FoundReturnsRank == Returned("found") => ret.pos = trueRank

\* C6: with a target that never appears, position never exceeds the ceiling
\* (first batch and probe scroll included) and, unless the listing ran out,
\* NotFound is not returned with position below the ceiling.
C6_CeilingCountedExactly ==
    target_article = 0 =>
        /\ position <= max_position
        /\ (Returned("notfound") /\ empty_pages < max_empty_pages)
               => position >= max_position

C8_UnresolvedBlockAborts ==
    /\ (sPc = "done" /\ unresolved) => ret.kind = "blocked"
    /\ Returned("loaderr") => pageStatus # "blocked"

(***************************************************************************)
(* Properties of PositionTracker.run (PoolSpec)                            *)
(***************************************************************************)
Recorded(log, t) == {i \in DOMAIN log : log[i][1] = t}

\* C1: when run() returns, every task has exactly one entry in results and
\* one cell write, whatever the searches and the page recoveries did.
C1_EveryTaskRecordedOnce ==
    runPc = "returned" =>
        \A t \in Tasks : /\ Cardinality(Recorded(results, t)) = 1
                         /\ Cardinality(Recorded(writes, t)) = 1

\* C2: a task whose three attempts all ended in OzonBlockedError, a
\* page-load error, a closed-tab error or a driver timeout is recorded with
\* the dash.
C2_ExhaustedRecordsError ==
    \A w \in Workers :
        (wPc[w] = "write" /\ attempt[w] = 3 /\ wAllRaised[w]) =>
            \A i \in Recorded(results, wTask[w]) : results[i][2] = "dash"

\* C3: when only one task can fail and tabs can always be opened, every
\* other task of a run that returned has exactly one result, Found or
\* NotFound, and its cell write, for any number of workers and any
\* interleaving.
C3_OthersComplete ==
    (runPc = "returned" /\ ~faulty /\ Cardinality(flaky) <= 1) =>
        \A t \in Tasks \ flaky :
            /\ Cardinality(Recorded(results, t)) = 1
            /\ Cardinality(Recorded(writes, t)) = 1
            /\ \A i \in Recorded(results, t) :
                  /\ results[i][2] \in {"position", "ceiling+"}
                  /\ writes[i] = results[i]

\* two workers, task 1 failed to the end and task 2 was found
C3_Witness ==
    /\ runPc = "returned"
    /\ ~faulty
    /\ flaky = {1}
    /\ num_workers = 2
    /\ \E i \in DOMAIN results : results[i] = <<1, "dash">>
    /\ \E i \in DOMAIN writes : writes[i] = <<2, "position">>

\* C9: an attempt that follows one ended by OzonBlockedError, a page-load
\* error or a navigation timeout starts only after restart_browser has run.
C9_RestartBeforeRetry ==
    \A w \in Workers : wPc[w] = "search" => w \notin needRestart

\* C10: the tab on which a worker runs a search is never closed by the
\* restart_browser of another worker.
C10_RestartSparesOtherTabs ==
    \A w \in Workers : wPc[w] = "search" => wPage[w] # "killed"

\* workers inside the locked part of restart_browser
Restarting == {w \in Workers : wPc[w] = "gf_launch"}

\* C11: at most one restart_browser is past the lock at any time, a second
\* caller stays before the close until the first has released the lock, and
\* the parser never has more than one context open: exactly one when
\* _context is set, none when it is not.
C11_OneRestartInFlight ==
    /\ Cardinality(Restarting) <= 1
    /\ restart_lock = Restarting
    /\ openContexts = (IF context = "live" THEN 1 ELSE 0)

\* one caller is restarting while another waits for the lock
C11_Witness ==
    \E v, w \in Workers : wPc[v] = "gf_launch" /\ wPc[w] = "gf_lock"

\* C12: when the column of the current hour exists with some task cells
\* filled and some empty, a run searches and writes only the tasks whose
\* cell is empty; no filled cell is written again.
C12_ResumeSkipsFilled ==
    (filled # {} /\ filled # Tasks) =>
        /\ \A i \in DOMAIN writes : writes[i][1] \notin filled
        /\ \A w \in Workers : wTask[w] \notin filled

(***************************************************************************)
(* Properties of the worksheet operations (SheetSpec)                      *)
(***************************************************************************)
HourlyOf(d) == {i \in DOMAIN sheet : sheet[i].date = d /\ sheet[i].hour # Daily}
DailyOf(d) == {i \in DOMAIN sheet : sheet[i].date = d /\ sheet[i].hour = Daily}

\* C13: between operations no date has a daily column together with an
\* hourly one, no date has two daily columns and no date and hour has two
\* hourly columns.
C13_OneBucketKindPerDate ==
    AtRest =>
        \A d \in Dates :
            /\ ~(DailyOf(d) # {} /\ HourlyOf(d) # {})
            /\ Cardinality(DailyOf(d)) <= 1
            /\ \A h \in Hours : Cardinality({i \in HourlyOf(d) : sheet[i].hour = h}) <= 1

\* the value the consolidation of row r should give when "<ceiling>+"
\* counts as the ceiling of the runs: the sentinel when the mean reaches the
\* ceiling, else the mean rounded to a nearest integer
ClaimedAverages(cols, r) ==
    LET cs == {i \in cols : sheet[i].vals[r] # Empty /\ sheet[i].vals[r] # Dash}
        val(i) == IF sheet[i].vals[r] < Dash THEN ceiling ELSE sheet[i].vals[r]
        n == Cardinality(cs)
        total == LET RECURSIVE Sum(_)
                     Sum(S) == IF S = {} THEN 0
                               ELSE LET i == MinOf(S) IN val(i) + Sum(S \ {i})
                 IN  Sum(cs)
    IN  IF n = 0 THEN {Empty}
        ELSE IF total >= ceiling * n THEN {NotFoundText(ceiling)}
        ELSE {q \in {total \div n, (total \div n) + 1} :
                 2 * n * q - 2 * total <= n /\ 2 * total - 2 * n * q <= n}

\* C14: consolidating two or more hourly columns computes for every row the
\* rounded mean of the row's values with "<ceiling>+" counted as the ceiling
\* of the runs, and the sentinel again when the mean reaches that ceiling.
C14_MeanWithCeiling ==
    cPc = "header" => \A r \in Rows : cAvg[r] \in ClaimedAverages(cCols, r)

\* C15: a consolidation of a date with exactly one hourly column renames
\* that column to the date and changes no cell, and a consolidation of a
\* date without hourly columns changes nothing and returns False.
C15_RenameAndNoOp ==
    [][(cPc = "idle" /\ cPc' = "returned") =>
          LET hourly == HourlyOf(cDate')
          IN  /\ hourly = {} => (sheet' = sheet /\ cRet' = FALSE)
              /\ Cardinality(hourly) = 1 =>
                    /\ cRet' = TRUE
                    /\ Len(sheet') = Len(sheet)
                    /\ \A i \in DOMAIN sheet :
                          /\ sheet'[i].vals = sheet[i].vals
                          /\ sheet'[i].date = sheet[i].date
                          /\ sheet'[i].hour = IF i \in hourly THEN Daily ELSE sheet[i].hour
      ]_vars

\* a consolidation of a date that is already daily has returned False
C15_Witness ==
    /\ cPc = "returned"
    /\ cRet = FALSE
    /\ DailyOf(cDate) # {}
    /\ \E i \in DailyOf(cDate) : sheet[i].vals # NoCells

\* C16: while a consolidation of a date is under way, or after one of its
\* sheet calls failed, the date never has a daily column together with
\* hourly columns.
C16_ConsolidationAtomic ==
    (cPc \in {"header", "values", "delete", "raised"} /\ cClean) =>
        ~(DailyOf(cDate) # {} /\ HourlyOf(cDate) # {})

(***************************************************************************)
(* Properties of the cell writes of a run (PoolSpec)                       *)
(***************************************************************************)
\* C17: a task has at most one cell write in a run, and a worker that is
\* still inside the retry loop of its task has issued no write for it.
C17_WriteAfterTerminalOutcome ==
    /\ \A t \in Tasks : Cardinality(Recorded(writes, t)) <= 1
    /\ \A w \in Workers :
          (wTask[w] # 0 /\ wPc[w] # "write") => Recorded(writes, wTask[w]) = {}

\* the write of a task whose first attempts were retried is under way
C17_Witness ==
    \E w \in Workers :
        /\ wPc[w] = "write"
        /\ attempt[w] >= 1
        /\ Cardinality(Recorded(writes, wTask[w])) = 1

\* C18: when run() has returned no worker has a cell write under way.
C18_ReturnAfterWrites ==
    runPc = "returned" => \A w \in Workers : wPc[w] # "write"

\* run() has returned after two workers wrote cells
C18_Witness ==
    /\ runPc = "returned"
    /\ num_workers = 2
    /\ \A t \in 1..num_tasks : Recorded(writes, t) # {}

\* C19: a worker whose cell write is under way can take its next task from
\* the queue without waiting for the write to end.
C19_WriteDoesNotDelayNextTask ==
    \A w \in Workers :
        (wPc[w] = "write" /\ task_queue # <<>>) => ENABLED Dequeue(w)

(***************************************************************************)
(* Termination of find_product_position (SearchFairSpec)                   *)
(***************************************************************************)
\* C20: every call of find_product_position whose browser calls all return
\* or raise ends with a result or an exception, whatever the page shows.
C20_SearchTerminates == <>(sPc = "done")

(***************************************************************************)
(* Properties of the worker pool (PoolSpec), continued                     *)
(***************************************************************************)
\* C21: no failure of a worker to get a tab, at its start or after a task,
\* makes run() end with an exception.
C21_WorkerErrorConfined == runPc # "raised"

\* C22: a worker has left its loop only when it found the queue empty, so
\* when run() returns every task has been taken from the queue.
C22_QueueDrained ==
    /\ \A w \in Workers : wPc[w] = "done" => task_queue = <<>>
    /\ runPc = "returned" => task_queue = <<>>

\* C23: find_product_position is called at most three times for a task,
\* and a task that has a result is not searched again.
C23_AtMostThreeAttempts ==
    \A w \in Workers :
        wPc[w] = "search" =>
            /\ attempt[w] < 3
            /\ Recorded(results, wTask[w]) = {}

\* a task is recorded after three attempts that all ended in a retry
C23_Witness ==
    \E w \in Workers :
        /\ wPc[w] = "write"
        /\ attempt[w] = 3
        /\ Recorded(results, wTask[w]) # {}

\* C24: in every recovery branch the backoff delay has elapsed when the
\* rebuild of the tab begins.
C24_BackoffBeforeRebuild ==
    [][\A w \in Workers :
          (wPc[w] # "gf_new" /\ wPc'[w] = "gf_new" /\ gfFrom'[w] = "retry")
              => wPc[w] = "backoff"]_vars

\* C30: a worker never searches on a tab it has closed or without a tab,
\* and from the search of a task to the search of the next one, without a
\* recovery in between, the worker holds the same tab.
C30_TabKeptAcrossTasks ==
    /\ [](\A w \in Workers : wPc[w] = "search" => wPage[w] \in {"open", "killed"})
    /\ [][\A w \in Workers :
             (wPc[w] \in {"search", "write", "loop"} /\ wPc'[w] \in {"search", "write", "loop"})
                 => wPage'[w] \in {wPage[w], "killed"}]_vars

\* the only worker searches its second task on the tab of the first
C30_Witness ==
    /\ num_workers = 1
    /\ wPc[0] = "search"
    /\ wTask[0] = 2
    /\ attempt[0] = 0
    /\ wPage[0] = "open"
    /\ results = << <<1, "position">> >>

(***************************************************************************)
(* Properties of the challenge handling (ChallengeSpec)                    *)
(***************************************************************************)
InCaptchaWait == chPc \in {"wc_poll", "wc_wait", "wc_returned", "wc_raised"}
InBlock == chPc \in {"hb_passive", "hb_retry", "hb_refresh", "hb_final",
                     "hb_returned", "hb_raised"}

\* C25: the manual wait of _wait_for_captcha classifies the page at most 60
\* times, waits again only after a Captcha classification, and returns
\* either after a classification that is not Captcha or after the 60th
\* one; it raises only when a wait_for_timeout call raises.
C25_BoundedCaptchaWait ==
    InCaptchaWait =>
        /\ polls <= captcha_polls
        /\ chPc = "wc_poll" => polls < captcha_polls
        /\ chPc = "wc_wait" => lastSeen.res[1]
        /\ (chPc = "wc_returned" /\ polls > 0) =>
               (~lastSeen.res[1] \/ polls = captcha_polls)
        /\ (chPc = "wc_raised" /\ polls > 0) => chExc = "wait"

\* the wait timed out: 60 classifications, the last one still Captcha
C25_Witness ==
    /\ chPc = "wc_returned"
    /\ polls = captcha_polls
    /\ lastSeen.res[1]

\* C26: no failure of the automatic solver makes _wait_for_captcha raise.
C26_SolverFailureFallsBack == chPc = "wc_raised" => chExc # "http"

\* C27: _handle_block_page makes at most 5 passive classifications and no
\* reload when one of them is not Blocked, then at most max_retries
\* reloads, each after a classification that was Blocked, and it returns
\* False exactly when its last classification was Blocked.
C27_BlockHandling ==
    InBlock =>
        /\ polls <= passive_polls
        /\ reloads <= max_retries
        /\ (reloads > 0 \/ chPc \in {"hb_retry", "hb_refresh", "hb_final"}) =>
               polls = passive_polls
        /\ chPc = "hb_refresh" => lastSeen.res[2]
        /\ chPc = "hb_returned" => chRet = ~lastSeen.res[2]
        /\ (chPc = "hb_returned" /\ reloads < max_retries) => chRet

\* still blocked after every reload: False is returned
C27_Witness ==
    /\ chPc = "hb_returned"
    /\ ~chRet
    /\ reloads = max_retries
    /\ polls = passive_polls

\* C28: a detector whose read of the page failed has classified the page
\* as Normal, and the function that called it has not raised.
C28_ReadFailureIsNormal ==
    ~lastSeen.read =>
        /\ lastSeen.res = <<FALSE, FALSE>>
        /\ chPc \in {"idle", "wc_returned", "hb_returned"}

\* the read of a captcha page failed in the wait loop, which returned
C28_Witness ==
    /\ ~lastSeen.read
    /\ lastSeen.det = "captcha"
    /\ lastSeen.page = "captcha"
    /\ chPc = "wc_returned"
    /\ polls > 0

(***************************************************************************)
(* The streak of empty advances (SearchSpec)                               *)
(***************************************************************************)
\* C29: when the run stops because max_empty_pages consecutive advances
\* gave no new identifier, it returns NotFound if the page had stopped
\* growing and Incomplete if the page was still growing.
C29_StreakEndDistinguished ==
    (sPc = "done" /\ empty_pages >= max_empty_pages) =>
        ret.kind = (IF grew THEN "incomplete" ELSE "notfound")

\* ---------------------------------------------------------------------
\* C31: each worker holds at most one open tab: whenever a worker is
\* handed a fresh tab (by _get_fresh_page in a recovery branch of
\* _process_single_task or in the fatal-error branch of _worker), the tab it
\* held before has been closed first.
C31_PreviousTabClosedFirst ==
    [][\A w \in Workers :
          (/\ wPc[w] \in {"gf_new", "gf_new2"}
           /\ gfFrom[w] # "start"
           /\ wPc'[w] \in {"backoff", "write"})
          => wPage[w] # "open"]_vars

C36_NoCapWhileProducing ==
    (Returned("notfound") /\ ~use_pagination /\ ~dry) => position >= max_position

\* ---------------------------------------------------------------------
\* C37: a position returned as Found lies in 1..max_position, also when the
\* target is met in the first batch or in the batch of the probe scroll.
C37_FoundWithinCeiling ==
    Returned("found") => (1 <= ret.pos /\ ret.pos <= max_position)

\* ---------------------------------------------------------------------
\* C33: when consolidate_daily_results has returned True for a date that had
\* one or more hourly columns, the sheet has exactly one column headed with
\* the bare date and no hourly column of that date.
C33_OneDailyColumnAfter ==
    (cPc = "returned" /\ cRet) =>
        /\ Cardinality(daily_columns_for_date(sheet, cDate)) = 1
        /\ hourly_columns_for_date(sheet, cDate) = {}

\* ---------------------------------------------------------------------
\* C38: when two or more hourly columns are consolidated, the mean of a row
\* is taken over the cells that hold a position or the not-found text only:
\* empty cells and the dash enter neither the sum nor the count, and a row
\* without any such cell gets the empty text.
NumericCells(r) ==
    {i \in cCols : sheet[i].vals[r] > 0 \/ sheet[i].vals[r] < Dash}

C38_BlankCellsLeftOut ==
    cPc = "header" =>
        \A r \in Rows :
           LET num == NumericCells(r)
               n == Cardinality(num)
               total == SumOver(sheet, num, r)
           IN  /\ n = 0 => cAvg[r] = Empty
               /\ n > 0 => cAvg[r] = IF total >= DefaultCeiling * n
                                     THEN NotFoundText(DefaultCeiling)
                                     ELSE PyRound(total, n)

\* a row with a number in one hourly column and the dash or nothing in
\* another, and a row with no number at all
C38_Witness ==
    /\ cPc = "header"
    /\ \E r \in Rows :
          /\ NumericCells(r) # {}
          /\ \E i \in cCols : sheet[i].vals[r] = Dash

(***************************************************************************)
(* Properties of get_tasks_from_sheet (TasksSpec)                          *)
(***************************************************************************)
\* the rows in S in sheet order, each with the article of the nearest row of
\* H above it
TasksOf(S, H) ==
    LET nth(k) == CHOOSE i \in S : Cardinality({j \in S : j <= i}) = k
        header(i) == MaxOf({j \in H : j < i})
    IN  [k \in 1..Cardinality(S) |->
            <<nth(k), Strip(data[header(nth(k))][1])>>]

IsBlank(cell) == Strip(cell) = <<>>

\* a row with a blank first cell and a query
QueryRows == {i \in 1..Len(data) :
                 Len(data[i]) >= 3 /\ IsBlank(data[i][1]) /\ ~IsBlank(data[i][3])}

ReturnedTasks == [k \in 1..Len(tasks) |-> <<tasks[k].row_index, tasks[k].article>>]

\* C32 as stated: the tasks returned are, in sheet order, the rows with an
\* empty first cell and a non-empty query cell that lie below some header
\* row, a header row being any row whose first cell is non-empty; each has
\* its sheet index and the article of the nearest header row above it.
\* ("Empty" is read as empty after strip().)
C32_TasksAsStated ==
    tPc = "returned" =>
        LET H == {j \in 1..Len(data) : Len(data[j]) >= 1 /\ ~IsBlank(data[j][1])}
            S == {i \in QueryRows : \E j \in H : j < i}
        IN  ReturnedTasks = TasksOf(S, H)

\* C32 amended: the same with the header rows being the rows below the
\* first row of the sheet that have three cells or more and a non-empty
\* first cell.
C32_TasksBelowProductHeaders ==
    tPc = "returned" =>
        LET H == {j \in 2..Len(data) : Len(data[j]) >= 3 /\ ~IsBlank(data[j][1])}
            S == {i \in QueryRows : \E j \in H : j < i}
        IN  ReturnedTasks = TasksOf(S, H)

\* a task under the second of two product header rows with different
\* articles
C32_Witness ==
    /\ tPc = "returned"
    /\ \E k \in 1..Len(tasks) :
       \E j \in 2..(tasks[k].row_index - 1) :
          /\ Len(data[j]) >= 3
          /\ ~IsBlank(data[j][1])
          /\ Strip(data[j][1]) # tasks[k].article

(***************************************************************************)
(* Properties of the proxy rotation (ProxySpec)                            *)
(***************************************************************************)
Rotating == ~proxy_server /\ num_proxies > 0

\* the launches made by the same one before launch i
OwnEarlier(i) == Cardinality({j \in 1..(i - 1) : launches[j].by = launches[i].by})

\* C34: with a proxy list and no single proxy server, the index stays in
\* 0..n-1 and every worker rotates through the list on its own, whatever
\* the other workers launched in between: the k-th launches of two workers
\* use the same proxy.
C34_RotationPerWorker ==
    Rotating =>
        /\ current_proxy_idx \in 0..(num_proxies - 1)
        /\ \A i, j \in DOMAIN launches :
              (/\ launches[i].by # Main
               /\ launches[j].by # Main
               /\ OwnEarlier(i) = OwnEarlier(j))
              => launches[i].proxy = launches[j].proxy

(***************************************************************************)
(* Properties of the solver pool (RecaptchaSpec)                           *)
(***************************************************************************)
\* C35: where both solvers are available, an account never has 3 failed
\* token requests in a row on the solver it is using: the third one has
\* switched it to the other solver, whichever of the two it was using.
C35_SwitchAfterThreeFailures ==
    playwright_available =>
        \A a \in Accounts : failed_requests[a] < MAX_FAILURES_BEFORE_FALLBACK

====
